---- MODULE Spec2Model ----
(***************************************************************************)
(* Verification model of factory_monitor.py (wisefab1/factory_monitor).   *)
(*                                                                         *)
(* Part A  check_and_alert: the alert state machine and its persisted      *)
(*         history file sent_alerts.json.                                  *)
(* Part B  parse_program_name, analyze_cycles, analyze_downtime: the       *)
(*         segmentation of one machine's samples.                          *)
(* Part C  init_db, save_to_db: the historical store.                      *)
(*                                                                         *)
(* Time is counted in whole hours since midnight of day 0; downtime        *)
(* durations are minutes; cycle times are hundredths of a minute.          *)
(***************************************************************************)
EXTENDS Integers, Sequences, FiniteSets, TLC

\* ------------------------------------------------------------------ bounds
\* the clock stops here (hour 33 = 09:00 of day 1)
MaxNow == 33
\* the clock starts here (07:00 of day 0, the last silent hour of the night)
InitialNow == 7

\* Python's None for an absent number or timestamp
None == 0 - 1
\* a Date, a Counter or a RunStateTime that strptime or int does not accept
Unparseable == 0 - 999

\* ------------------------------------------------------- program constants
ALERT_THRESHOLD_MIN == 45
REPEAT_ADDITIONAL_MIN == 45
SILENT_FROM_HOUR == 20
SILENT_UNTIL_HOUR == 8
RESET_AFTER_HOURS == 24
ALL_OK_EVERY_HOURS == 4
TARGET_DIFF_PCT == 10

\* ------------------------------------------------------------ input domains
Machines == {"M1", "M2"}
\* start minute of a downtime occurrence (minute of the day)
StartMinutes == {540}
\* observed duration_minutes of a downtime
Durations == {44, 45, 50, 90, 96}
\* a downtime as analyze_downtime emits it: end is None while it is ongoing
DowntimeValues == [duration : Durations, has_end : BOOLEAN]
Occurrences == Machines \X StartMinutes
\* downtimes handed to one evaluation, by (machine, start)
DowntimeInputs == UNION {[S -> DowntimeValues] : S \in SUBSET Occurrences}

ProgramsOf == {<<"M1", "P1">>}
\* calculated cycle time (None: insufficient data) and Excel target (None or 0: no target)
CalcValues == {None, 89, 90, 110, 111}
TargetValues == {None, 0, 100}
TargetInputs == [ProgramsOf -> [calc : CalcValues, target : TargetValues]]
\* the inputs of the runs about downtimes (no program has a calculated time) ...
NoTargets == [p \in ProgramsOf |-> [calc |-> None, target |-> None]]
\* ... and of the runs about targets (downtimes of the first machine only)
FewDowntimes == {d \in DowntimeInputs : DOMAIN d \subseteq {<<"M1", 540>>}}
\* the hours at which the monitor is started: 07:00 (silent), 08:00, 09:00, 12:00,
\* 19:00, 20:00 (silent) of day 0 and 09:00 of day 1
RunTimes == {t \in InitialNow..MaxNow : t \in {7, 8, 9, 12, 19, 20, 33}}

\* ------------------------------------------------------------------- state
VARIABLES
    now,                \* datetime.now(), in hours
    file_state,         \* sent_alerts.json: "missing", "valid" or "corrupt"
    last_reset,         \* "last_reset" of the file
    sent_alerts,        \* "alerts" of the file: keyed records, by alert_key
    last_all_ok_alert,  \* "alerts"["_last_all_ok_alert"] of the file (None: absent)
    outcome,            \* the last run: "idle" (none yet), "silent", "done", "crashed"
    downtimes,          \* the downtimes the last run was given
    targets,            \* the calc/target values the last run was given
    reset_needed,       \* whether the last run discarded the loaded history
    payload,            \* what the last run handed to send_telegram
    reported_new,       \* history: keys reported 'new' since the keyed records were last discarded
    discarded_at,       \* history: when the keyed records were last discarded
    all_ok_sent_at,     \* history: when the last 'all normal' payload was sent
    rows,               \* Part B: the samples of one machine, as filter_last_hours returns them
    seg_pc,             \* Part B: "loaded", "cycles" (analyze_cycles has run), "done"
    seg_cycles,         \* Part B: result[mname] of analyze_cycles
    seg_downtimes,      \* Part B: result[mname] of analyze_downtime
    daily_summary,      \* Part C: table daily_summary, by its primary key (date, machine)
    cycle_events,       \* Part C: table cycle_events, in insertion order
    downtime_events,    \* Part C: table downtime_events, in insertion order
    db_saves,           \* Part C: how many times save_to_db has run
    call_pc,            \* Part D: a function called on its own: "idle", "ready", "returned"
                        \* (of each invocation, when two overlap)
    call_args,          \* Part D: the function called and its arguments
    call_result         \* Part D: what the call returned

alert_file == <<file_state, last_reset, sent_alerts, last_all_ok_alert>>
last_run == <<outcome, downtimes, targets, reset_needed, payload>>
history == <<reported_new, discarded_at, all_ok_sent_at>>
alert_vars == <<now, alert_file, last_run, history>>
seg_vars == <<rows, seg_pc, seg_cycles, seg_downtimes>>
db_vars == <<daily_summary, cycle_events, downtime_events, db_saves>>
call_vars == <<call_pc, call_args, call_result>>
vars == <<alert_vars, seg_vars, db_vars, call_vars>>

EmptyDict == [k \in {} |-> None]
NoPayload == [kind |-> "none", downtime_alerts |-> {}, target_alerts |-> {}]

\* ------------------------------------------------------ check_and_alert
\* alert_key = f"downtime_{mname}_{start:%Y-%m-%d_%H:%M}"
alert_key(occ) == occ

SilentHoursMutant(current_hour) ==
    current_hour > SILENT_FROM_HOUR \/ current_hour < SILENT_UNTIL_HOUR

\* line 1275
SilentHours(current_hour) ==
    current_hour >= SILENT_FROM_HOUR \/ current_hour < SILENT_UNTIL_HOUR

\* a variant that discards the history when it is exactly 24 hours old
ResetNeededAt24Hours(state, reset_time, current_time) ==
    \/ state # "valid"
    \/ reset_time = None
    \/ current_time - reset_time >= RESET_AFTER_HOURS

\* lines 1283-1304: the file is missing or unreadable, has no last_reset, or is too old
ResetNeeded(state, reset_time, current_time) ==
    \/ state # "valid"
    \/ reset_time = None
    \/ current_time - reset_time > RESET_AFTER_HOURS

IsNewMutant(alerts, occ, d) ==
    d.duration >= ALERT_THRESHOLD_MIN

\* lines 1322-1325, 1348-1351
IsNew(alerts, occ, d) ==
    /\ d.duration >= ALERT_THRESHOLD_MIN
    /\ alert_key(occ) \notin DOMAIN alerts

IsRepeatMutantDelta(alerts, occ, d) ==
    /\ d.duration >= ALERT_THRESHOLD_MIN
    /\ alert_key(occ) \in DOMAIN alerts
    /\ ~d.has_end
    /\ d.duration - alerts[alert_key(occ)].duration > REPEAT_ADDITIONAL_MIN

IsRepeatMutantEnded(alerts, occ, d) ==
    /\ d.duration >= ALERT_THRESHOLD_MIN
    /\ alert_key(occ) \in DOMAIN alerts
    /\ d.duration - alerts[alert_key(occ)].duration >= REPEAT_ADDITIONAL_MIN

\* lines 1322-1347
IsRepeat(alerts, occ, d) ==
    /\ d.duration >= ALERT_THRESHOLD_MIN
    /\ alert_key(occ) \in DOMAIN alerts
    /\ ~d.has_end
    /\ d.duration - alerts[alert_key(occ)].duration >= REPEAT_ADDITIONAL_MIN

\* lines 1310-1353: the (mname, d, alert_key, is_repeat) entries
DowntimeAlerts(alerts, dts) ==
    {[key |-> alert_key(occ), is_repeat |-> FALSE] :
        occ \in {o \in DOMAIN dts : IsNew(alerts, o, dts[o])}}
    \cup
    {[key |-> alert_key(occ), is_repeat |-> TRUE] :
        occ \in {o \in DOMAIN dts : IsRepeat(alerts, o, dts[o])}}

Abs(x) == IF x < 0 THEN 0 - x ELSE x

ExceedsTargetMutant(calc, target) ==
    Abs(calc - target) * 100 >= TARGET_DIFF_PCT * target

\* lines 1401-1404: abs((calc - target) / target * 100) > 10, for target > 0
ExceedsTarget(calc, target) ==
    Abs(calc - target) * 100 > TARGET_DIFF_PCT * target

\* lines 1358-1415: the (machine, program) pairs with a target alert
TargetAlerts(tgs) ==
    {p \in DOMAIN tgs :
        /\ tgs[p].calc # None
        /\ tgs[p].target # None /\ tgs[p].target # 0
        /\ ExceedsTarget(tgs[p].calc, tgs[p].target)}

\* a variant that records the alerted downtimes only when the message went out
RecordAlertsIfDelivered(alerts, d_alerts, dts) ==
    LET alerted == IF call_args.network THEN {a.key : a \in d_alerts} ELSE {}
    IN  [k \in DOMAIN alerts \cup alerted |->
            IF k \in alerted
            THEN [duration |-> dts[k].duration]
            ELSE alerts[k]]

\* a variant that records the duration of every downtime the run was given
RecordAlertsOfAll(alerts, d_alerts, dts) ==
    [k \in DOMAIN alerts \cup DOMAIN dts |->
        IF k \in DOMAIN dts THEN [duration |-> dts[k].duration] ELSE alerts[k]]

\* lines 1453-1472: every alerted downtime is recorded with its current duration
\* (the record's "machine" and "start" repeat the key, and "last_alert" is read
\* nowhere in the program: the record is modelled by the field that is read)
RecordAlerts(alerts, d_alerts, dts) ==
    LET alerted == {a.key : a \in d_alerts}
    IN  [k \in DOMAIN alerts \cup alerted |->
            IF k \in alerted
            THEN [duration |-> dts[k].duration]
            ELSE alerts[k]]

\* lines 1494-1510
ShouldSend(d_alerts, t_alerts, last_ok, current_time) ==
    IF d_alerts = {} /\ t_alerts = {}
    THEN last_ok = None \/ ~(current_time - last_ok < ALL_OK_EVERY_HOURS)
    ELSE TRUE

\* lines 1425-1448, 1512-1514: the message handed to send_telegram
Message(d_alerts, t_alerts, should_send) ==
    IF ~should_send THEN NoPayload
    ELSE [kind |-> IF d_alerts = {} /\ t_alerts = {} THEN "all_ok" ELSE "alert",
          downtime_alerts |-> d_alerts,
          target_alerts |-> t_alerts]

\* lines 1269-1277: the run returns at once in silent hours
check_and_alert_silent(dts, tgs) ==
    /\ SilentHours(now % 24)
    /\ outcome' = "silent"
    /\ downtimes' = dts
    /\ targets' = tgs
    /\ reset_needed' = FALSE
    /\ payload' = NoPayload
    /\ UNCHANGED <<now, alert_file, history, seg_vars, db_vars, call_vars>>

\* lines 1279-1525: a complete run outside silent hours, whatever send_telegram met
check_and_alert_complete(dts, tgs) ==
    LET reset    == ResetNeeded(file_state, last_reset, now)
        loaded   == IF reset THEN EmptyDict ELSE sent_alerts
        last_ok  == IF reset THEN None ELSE last_all_ok_alert
        d_alerts == DowntimeAlerts(loaded, dts)
        t_alerts == TargetAlerts(tgs)
        send     == ShouldSend(d_alerts, t_alerts, last_ok, now)
        message  == Message(d_alerts, t_alerts, send)
    IN  /\ ~SilentHours(now % 24)
        /\ outcome' = "done"
        /\ downtimes' = dts
        /\ targets' = tgs
        /\ reset_needed' = reset
        /\ payload' = message
        /\ file_state' = "valid"
        /\ last_reset' = now
        /\ sent_alerts' = RecordAlerts(loaded, d_alerts, dts)
        /\ last_all_ok_alert' = IF message.kind = "all_ok" THEN now ELSE last_ok
        /\ reported_new' = (IF reset THEN {} ELSE reported_new)
                              \cup {a.key : a \in {x \in d_alerts : ~x.is_repeat}}
        /\ discarded_at' = IF reset THEN now ELSE discarded_at
        /\ all_ok_sent_at' = IF message.kind = "all_ok" THEN now ELSE all_ok_sent_at
        /\ UNCHANGED <<now, seg_vars, db_vars>>

check_and_alert_run(dts, tgs) ==
    check_and_alert_complete(dts, tgs) /\ UNCHANGED call_vars

\* lines 1279-1519: the process dies after send_telegram (line 1514) and before the
\* history file is opened for writing (line 1521): the message is out, the file is as
\* it was
check_and_alert_crash(dts, tgs) ==
    LET reset    == ResetNeeded(file_state, last_reset, now)
        loaded   == IF reset THEN EmptyDict ELSE sent_alerts
        last_ok  == IF reset THEN None ELSE last_all_ok_alert
        d_alerts == DowntimeAlerts(loaded, dts)
        t_alerts == TargetAlerts(tgs)
        send     == ShouldSend(d_alerts, t_alerts, last_ok, now)
        message  == Message(d_alerts, t_alerts, send)
    IN  /\ ~SilentHours(now % 24)
        /\ outcome' = "crashed"
        /\ downtimes' = dts
        /\ targets' = tgs
        /\ reset_needed' = reset
        /\ payload' = message
        /\ all_ok_sent_at' = IF message.kind = "all_ok" THEN now ELSE all_ok_sent_at
        /\ UNCHANGED <<now, alert_file, reported_new, discarded_at, seg_vars, db_vars, call_vars>>

\* a run of the monitor on fresh data
Evaluate ==
    /\ outcome = "idle"
    /\ \E dts \in DowntimeInputs, tgs \in TargetInputs :
        /\ tgs = NoTargets \/ dts \in FewDowntimes
        /\ check_and_alert_silent(dts, tgs) \/ check_and_alert_run(dts, tgs)

\* a run of the monitor on fresh data that dies between send_telegram and the write
Crash ==
    /\ outcome = "idle"
    /\ \E dts \in FewDowntimes :
        check_and_alert_crash(dts, NoTargets)

\* a second run on the same data
Rerun ==
    /\ outcome # "idle"
    /\ check_and_alert_silent(downtimes, targets) \/ check_and_alert_run(downtimes, targets)

\* the clock moves on to the next start of the monitor
Tick ==
    /\ \E t \in RunTimes : t > now
    /\ now' = CHOOSE t \in RunTimes : t > now /\ \A u \in RunTimes : u > now => t <= u
    /\ outcome' = "idle"
    /\ downtimes' = EmptyDict
    /\ targets' = EmptyDict
    /\ reset_needed' = FALSE
    /\ payload' = NoPayload
    /\ UNCHANGED <<alert_file, history, seg_vars, db_vars, call_vars>>

NoDowntimeData == [downtimes |-> <<>>, total_run |-> 0, total_down |-> 0, total_min |-> 0]

\* Part B at rest: no samples
SegIdle ==
    /\ rows = <<>>
    /\ seg_pc = "done"
    /\ seg_cycles = <<>>
    /\ seg_downtimes = NoDowntimeData

\* Part D at rest: no function is called on its own
NoCall ==
    /\ call_pc = "idle"
    /\ call_args = [fn |-> "none"]
    /\ call_result = None

\* Part C: init_db on a new history.db (lines 740-762)
init_db ==
    /\ daily_summary = EmptyDict
    /\ cycle_events = <<>>
    /\ downtime_events = <<>>
    /\ db_saves = 0

AlertInit ==
    /\ now = InitialNow
    /\ file_state = "missing"
    /\ last_reset = None
    /\ sent_alerts = EmptyDict
    /\ last_all_ok_alert = None
    /\ outcome = "idle"
    /\ downtimes = EmptyDict
    /\ targets = EmptyDict
    /\ reset_needed = FALSE
    /\ payload = NoPayload
    /\ reported_new = {}
    /\ discarded_at = None
    /\ all_ok_sent_at = None

Init == AlertInit /\ SegIdle /\ init_db /\ NoCall

Next == Evaluate \/ Rerun \/ Tick

\* complete runs of the monitor
Spec == Init /\ [][Next]_vars

\* runs of the monitor that may die before the history is written
NextCrash == Next \/ Crash
SpecCrash == Init /\ [][NextCrash]_vars

\* ------------------------------------------- the store and the sink fail
\* what a run finds around it: whether sent_alerts.json can be opened for writing
\* (line 1521) and whether urlopen of send_telegram succeeds (line 734)
Environments == [fn : {"check_and_alert"}, writable : BOOLEAN, network : BOOLEAN]

\* the inputs: downtimes of 44, 50 or 96 minutes of any of the machines
StoreInputs ==
    {d \in DowntimeInputs : \A o \in DOMAIN d : d[o].duration \in {44, 50, 96}}

\* lines 726-737, 1513-1514: what becomes of the message. urlopen raises when the
\* network or the service fails; send_telegram catches the exception, logs it and
\* returns None as it does on success
send_telegram(message) ==
    IF message.kind = "none" THEN "not called"
    ELSE IF call_args.network THEN "sent" ELSE "error logged"

\* no history file; no message yet
StoreInit ==
    /\ call_pc = "idle"
    /\ call_args \in Environments
    /\ call_result = "not called"

\* lines 1279-1521: a run outside silent hours whose history file cannot be written.
\* The message has been handed to send_telegram (line 1514); open(..., "w") raises
\* (line 1521, in no try) and the file is as it was, or it is opened and truncated
\* and json.dump raises (line 1522) and the file is left without valid content. The
\* exception leaves check_and_alert and main (line 2471, in no try).
check_and_alert_write_fails(dts, tgs) ==
    LET reset    == ResetNeeded(file_state, last_reset, now)
        loaded   == IF reset THEN EmptyDict ELSE sent_alerts
        last_ok  == IF reset THEN None ELSE last_all_ok_alert
        d_alerts == DowntimeAlerts(loaded, dts)
        t_alerts == TargetAlerts(tgs)
        send     == ShouldSend(d_alerts, t_alerts, last_ok, now)
        message  == Message(d_alerts, t_alerts, send)
    IN  /\ ~SilentHours(now % 24)
        /\ outcome' = "raised"
        /\ downtimes' = dts
        /\ targets' = tgs
        /\ reset_needed' = reset
        /\ payload' = message
        /\ all_ok_sent_at' = IF message.kind = "all_ok" THEN now ELSE all_ok_sent_at
        /\ \/ UNCHANGED alert_file
           \/ /\ file_state' = "corrupt"
              /\ last_reset' = None
              /\ sent_alerts' = EmptyDict
              /\ last_all_ok_alert' = None
        /\ UNCHANGED <<now, reported_new, discarded_at, seg_vars, db_vars>>

\* a run of the monitor on fresh data, with the store and the sink as they are
StoreEvaluate ==
    /\ outcome = "idle"
    /\ \E dts \in StoreInputs :
        \/ check_and_alert_silent(dts, NoTargets)
        \/ /\ call_args.writable
           /\ check_and_alert_complete(dts, NoTargets)
           /\ call_result' = send_telegram(payload')
           /\ UNCHANGED <<call_pc, call_args>>
        \/ /\ ~call_args.writable
           /\ check_and_alert_write_fails(dts, NoTargets)
           /\ call_result' = send_telegram(payload')
           /\ UNCHANGED <<call_pc, call_args>>

\* between two runs the store or the network comes back or goes away
EnvironmentChanges ==
    /\ outcome = "idle"
    /\ \E e \in Environments : e # call_args /\ call_args' = e
    /\ UNCHANGED <<alert_vars, seg_vars, db_vars, call_pc, call_result>>

InitStore == AlertInit /\ SegIdle /\ init_db /\ StoreInit
NextStore == StoreEvaluate \/ EnvironmentChanges \/ Tick
\* runs of the monitor with a history file and a network that may fail
SpecStore == InitStore /\ [][NextStore]_vars

\* ------------------------------------------------ overlapping invocations
\* two invocations of check_and_alert on one history file: call_pc, call_args and
\* call_result hold, for each, its position ("idle", "started", "loaded", "returned"),
\* its input with what it has loaded, and what it has sent
Invocations == {1, 2}
\* the inputs: ongoing downtimes of 50 minutes of any of the machines
OverlapInputs ==
    {d \in DowntimeInputs :
        \A o \in DOMAIN d : d[o] = [duration |-> 50, has_end |-> FALSE]}
NotLoaded == [downtimes |-> EmptyDict, sent_alerts |-> EmptyDict, last_ok |-> None,
              reset_needed |-> FALSE]

\* no history file, or the file a run of the same hour has left without records
OverlapInit ==
    /\ now \in {t \in RunTimes : t <= 9}
    /\ \/ file_state = "missing" /\ last_reset = None
       \/ file_state = "valid" /\ last_reset = now
    /\ sent_alerts = EmptyDict
    /\ last_all_ok_alert = None
    /\ outcome = "idle"
    /\ downtimes = EmptyDict
    /\ targets = EmptyDict
    /\ reset_needed = FALSE
    /\ payload = NoPayload
    /\ reported_new = {}
    /\ discarded_at = None
    /\ all_ok_sent_at = None
    /\ call_pc = [p \in Invocations |-> "idle"]
    /\ call_args = [p \in Invocations |-> NotLoaded]
    /\ call_result = [p \in Invocations |-> NoPayload]

\* lines 1269-1277: the invocation starts, and returns at once in silent hours
BeginCheck(p) ==
    /\ call_pc[p] = "idle"
    /\ \E dts \in OverlapInputs :
          call_args' = [call_args EXCEPT ![p].downtimes = dts]
    /\ call_pc' = [call_pc EXCEPT ![p] = IF SilentHours(now % 24) THEN "returned"
                                         ELSE "started"]
    /\ UNCHANGED <<call_result, alert_vars, seg_vars, db_vars>>

\* lines 1283-1307: the invocation reads the history file
LoadHistory(p) ==
    /\ call_pc[p] = "started"
    /\ LET reset == ResetNeeded(file_state, last_reset, now)
       IN  call_args' = [call_args EXCEPT
                            ![p].sent_alerts = IF reset THEN EmptyDict ELSE sent_alerts,
                            ![p].last_ok = IF reset THEN None ELSE last_all_ok_alert,
                            ![p].reset_needed = reset]
    /\ call_pc' = [call_pc EXCEPT ![p] = "loaded"]
    /\ UNCHANGED <<call_result, alert_vars, seg_vars, db_vars>>

\* lines 1310-1525: the invocation evaluates its input against what it has loaded,
\* sends its message and writes the file: open(..., "w") and json.dump of its own
\* dictionary, whatever the file holds by then
SendAndStore(p) ==
    /\ call_pc[p] = "loaded"
    /\ LET dts      == call_args[p].downtimes
           loaded   == call_args[p].sent_alerts
           last_ok  == call_args[p].last_ok
           d_alerts == DowntimeAlerts(loaded, dts)
           send     == ShouldSend(d_alerts, {}, last_ok, now)
           message  == Message(d_alerts, {}, send)
       IN  /\ call_result' = [call_result EXCEPT ![p] = message]
           /\ outcome' = "done"
           /\ downtimes' = dts
           /\ targets' = NoTargets
           /\ reset_needed' = call_args[p].reset_needed
           /\ payload' = message
           /\ file_state' = "valid"
           /\ last_reset' = now
           /\ sent_alerts' = RecordAlerts(loaded, d_alerts, dts)
           /\ last_all_ok_alert' = IF message.kind = "all_ok" THEN now ELSE last_ok
           /\ reported_new' = reported_new \cup {a.key : a \in {x \in d_alerts : ~x.is_repeat}}
           /\ discarded_at' = IF call_args[p].reset_needed THEN now ELSE discarded_at
           /\ all_ok_sent_at' = IF message.kind = "all_ok" THEN now ELSE all_ok_sent_at
    /\ call_pc' = [call_pc EXCEPT ![p] = "returned"]
    /\ UNCHANGED <<now, call_args, seg_vars, db_vars>>

InitOverlap == OverlapInit /\ SegIdle /\ init_db
OverlapNext == \E p \in Invocations : BeginCheck(p) \/ LoadHistory(p) \/ SendAndStore(p)
\* two invocations of check_and_alert in one hour, in any interleaving of their steps
SpecOverlap == InitOverlap /\ [][OverlapNext]_vars

\* ======================================================================
\* Part B: program names and segmentation
\* ======================================================================
\* A program label is a sequence of one-character strings.
\* the character U+2014, the label of a sample without a program
EmDash == "emdash"
LowerCase == <<"a","b","c","d","e","f","g","h","i","j","k","l","m",
               "n","o","p","q","r","s","t","u","v","w","x","y","z">>
UpperCase == <<"A","B","C","D","E","F","G","H","I","J","K","L","M",
               "N","O","P","Q","R","S","T","U","V","W","X","Y","Z">>
\* str.lower and str.upper on one character
Lower(c) == IF \E i \in 1..26 : UpperCase[i] = c
            THEN LowerCase[CHOOSE i \in 1..26 : UpperCase[i] = c] ELSE c
Upper(c) == IF \E i \in 1..26 : LowerCase[i] = c
            THEN UpperCase[CHOOSE i \in 1..26 : LowerCase[i] = c] ELSE c
LowerStr(s) == [i \in 1..Len(s) |-> Lower(s[i])]
UpperStr(s) == [i \in 1..Len(s) |-> Upper(s[i])]
EndsWith(s, suffix) ==
    Len(s) >= Len(suffix) /\ SubSeq(s, Len(s) - Len(suffix) + 1, Len(s)) = suffix
DropLast(s, n) == SubSeq(s, 1, Len(s) - n)

\* name.rsplit('.', 1)[0] when '.' is in the name
StripExtension(name) ==
    IF \E i \in 1..Len(name) : name[i] = "."
    THEN LET last == CHOOSE i \in 1..Len(name) :
                        name[i] = "." /\ \A j \in (i + 1)..Len(name) : name[j] # "."
         IN  SubSeq(name, 1, last - 1)
    ELSE name

\* the suffixes tried by normalize_program_name, in its order (lines 95-96)
OpSuffixes ==
    <<  <<"-","o","p","5">>, <<"_","o","p","5">>, <<"o","p","5">>,
        <<"-","p","5">>,     <<"_","p","5">>,     <<"p","5">>,
        <<"-","o","p","4">>, <<"_","o","p","4">>, <<"o","p","4">>,
        <<"-","p","4">>,     <<"_","p","4">>,     <<"p","4">>,
        <<"-","o","p","3">>, <<"_","o","p","3">>, <<"o","p","3">>,
        <<"-","p","3">>,     <<"_","p","3">>,     <<"p","3">>,
        <<"-","o","p","2">>, <<"_","o","p","2">>, <<"o","p","2">>,
        <<"-","p","2">>,     <<"_","p","2">>,     <<"p","2">>,
        <<"-","o","p","1">>, <<"_","o","p","1">>, <<"o","p","1">>,
        <<"-","p","1">>,     <<"_","p","1">>,     <<"p","1">>  >>
DigitSuffixes == << <<"-","5">>, <<"_","5">>, <<"-","4">>, <<"_","4">>, <<"-","3">>,
                    <<"_","3">>, <<"-","2">>, <<"_","2">>, <<"-","1">>, <<"_","1">> >>

\* the first suffix of the list that the name ends with (0: none)
FirstSuffix(name, suffixes) ==
    IF \E i \in 1..Len(suffixes) : EndsWith(name, suffixes[i])
    THEN CHOOSE i \in 1..Len(suffixes) :
            /\ EndsWith(name, suffixes[i])
            /\ \A j \in 1..(i - 1) : ~EndsWith(name, suffixes[j])
    ELSE 0

\* lines 92-110: the operation suffix is cut off the name
StripOperation(name) ==
    LET op == FirstSuffix(LowerStr(name), OpSuffixes)
        dg == FirstSuffix(name, DigitSuffixes)
    IN  IF op # 0 THEN DropLast(name, Len(OpSuffixes[op]))
        ELSE IF dg # 0 THEN DropLast(name, 2)
        ELSE name

\* lines 112-114
StripSide(name) ==
    IF Len(name) > 0 /\ Upper(name[Len(name)]) \in {"L", "R"} THEN DropLast(name, 1) ELSE name

\* lines 119-120
RemoveSeparators(name) == SelectSeq(name, LAMBDA c : c \notin {" ", "-", "_"})

\* line 123: str.replace('101', '100'), left to right without overlap
RECURSIVE Replace101(_)
Replace101(name) ==
    IF Len(name) < 3 THEN name
    ELSE IF SubSeq(name, 1, 3) = <<"1","0","1">>
         THEN <<"1","0","0">> \o Replace101(SubSeq(name, 4, Len(name)))
         ELSE <<name[1]>> \o Replace101(Tail(name))

\* a variant that keeps the case of the letters
normalize_program_nameCaseSensitive(name) ==
    IF name = <<>> THEN <<>>
    ELSE Replace101(RemoveSeparators(StripSide(StripOperation(StripExtension(name)))))

\* lines 70-124
normalize_program_name(name) ==
    IF name = <<>> THEN <<>>
    ELSE Replace101(RemoveSeparators(UpperStr(StripSide(StripOperation(StripExtension(name))))))

\* the endings get_operation_number tests for operation n (lines 164-177)
OperationEndings(n) ==
    LET d == <<"1","2","3","4","5">>[n]
    IN  {<<"o","p",d>>, <<"p",d>>, <<"-","p",d>>, <<"-",d>>, <<"_",d>>}

\* lines 141-178
get_operation_number(program_name) ==
    IF program_name = <<>> \/ program_name = <<EmDash>> THEN 1
    ELSE LET base_lower == LowerStr(StripExtension(program_name))
             found == {n \in 1..5 : \E e \in OperationEndings(n) : EndsWith(base_lower, e)}
         IN  IF found = {} THEN 1
             ELSE CHOOSE n \in found : \A m \in found : m <= n

\* lines 126-139
parse_program_name(program_name) ==
    <<normalize_program_name(program_name), get_operation_number(program_name)>>

\* ---------------------------------------------------------- segmentation
\* a sample: Date (seconds), RunState, ProgramFileName
RunStates == {"0", "1"}
Timestamps == {0, 20, 100}
Labels == { <<"A","-","P","1">>, <<"a","_","o","p","1">>, <<"A","-","P","2">> }
\* the label of an idle sample is read nowhere: idle samples carry one label
IdleLabels == { <<"A","-","P","1">> }
\* the columns analyze_downtime reads of an idle sample (lines 1082-1089)
FlagColumns == {"AlarmState", "PowerOn", "SetUp", "Maintenance", "NoOperator", "Wait",
                "FeedHoldState", "ProgramStopState"}
\* powered on, and no condition reported
NoFlags == [c \in FlagColumns |-> IF c = "PowerOn" THEN "1" ELSE "0"]
Samples == [ts : Timestamps, run : {"1"}, prog : Labels, flags : {NoFlags}]
              \cup [ts : Timestamps, run : {"0"}, prog : IdleLabels, flags : {NoFlags}]
\* the number of samples of the machine
MaxRows == 4

\* round(seconds / 60, 2), in hundredths of a minute
DurationOf(seconds) == (10 * seconds + 3) \div 6

\* mrows.sort(key=Date): a stable sort (lines 915, 1066)
RECURSIVE InsertByDate(_, _)
InsertByDate(sorted, r) ==
    IF sorted = <<>> THEN <<r>>
    ELSE IF sorted[Len(sorted)].ts <= r.ts THEN Append(sorted, r)
    ELSE Append(InsertByDate(SubSeq(sorted, 1, Len(sorted) - 1), r), sorted[Len(sorted)])
RECURSIVE SortByDate(_)
SortByDate(rs) ==
    IF rs = <<>> THEN <<>>
    ELSE InsertByDate(SortByDate(SubSeq(rs, 1, Len(rs) - 1)), rs[Len(rs)])

\* line 916: the loop state of analyze_cycles
CyclesStart ==
    [cycles |-> <<>>, prev_run |-> "None", prev_prog_parsed |-> <<>>,
     cycle_start |-> None, cycle_prog |-> <<>>]

ClosedCycle(st, ts) ==
    [start |-> st.cycle_start, end |-> ts, program |-> st.cycle_prog,
     duration |-> DurationOf(ts - st.cycle_start), ongoing |-> FALSE]

\* a variant that compares the raw labels instead of the parsed identities
CyclesStepRawLabels(st, r) ==
    LET prog_parsed == parse_program_name(r.prog)
        st1 ==
            IF r.run = "1"
            THEN IF st.prev_run \in {"None", "0"}
                 THEN [st EXCEPT !.cycle_start = r.ts, !.cycle_prog = r.prog]
                 ELSE IF r.prog # st.cycle_prog
                      THEN [st EXCEPT !.cycles = Append(@, ClosedCycle(st, r.ts)),
                                      !.cycle_start = r.ts, !.cycle_prog = r.prog]
                      ELSE st
            ELSE IF st.prev_run = "1" /\ st.cycle_start # None
                 THEN [st EXCEPT !.cycles = Append(@, ClosedCycle(st, r.ts)),
                                 !.cycle_start = None]
                 ELSE st
    IN  [st1 EXCEPT !.prev_run = r.run, !.prev_prog_parsed = prog_parsed]

\* lines 917-942: one sample of the loop of analyze_cycles
CyclesStep(st, r) ==
    LET prog_parsed == parse_program_name(r.prog)
        st1 ==
            IF r.run = "1"
            THEN IF st.prev_run \in {"None", "0"}
                 THEN [st EXCEPT !.cycle_start = r.ts, !.cycle_prog = r.prog]
                 ELSE IF /\ st.prev_run = "1"
                         /\ prog_parsed # st.prev_prog_parsed
                         /\ st.cycle_start # None
                      THEN [st EXCEPT !.cycles = Append(@, ClosedCycle(st, r.ts)),
                                      !.cycle_start = r.ts, !.cycle_prog = r.prog]
                      ELSE st
            ELSE IF st.prev_run = "1" /\ r.run = "0" /\ st.cycle_start # None
                 THEN [st EXCEPT !.cycles = Append(@, ClosedCycle(st, r.ts)),
                                 !.cycle_start = None]
                 ELSE st
    IN  [st1 EXCEPT !.prev_run = r.run, !.prev_prog_parsed = prog_parsed]

RECURSIVE CyclesLoop(_, _)
CyclesLoop(st, mrows) ==
    IF mrows = <<>> THEN st ELSE CyclesLoop(CyclesStep(st, Head(mrows)), Tail(mrows))

\* lines 908-950, for the rows of one machine
analyze_cycles(machine_rows) ==
    LET mrows == SortByDate(machine_rows)
        st == CyclesLoop(CyclesStart, mrows)
    IN  IF st.cycle_start # None
        THEN Append(st.cycles,
                    [start |-> st.cycle_start, end |-> None, program |-> st.cycle_prog,
                     duration |-> DurationOf(mrows[Len(mrows)].ts - st.cycle_start),
                     ongoing |-> TRUE])
        ELSE st.cycles

\* line 1067: the loop state of analyze_downtime
DowntimeStart ==
    [downtimes |-> <<>>, prev_run |-> "None", dt_start |-> None, dt_reason |-> ""]

\* a variant that looks at the power before the alarm
ReasonPowerFirst(r) ==
    IF r.run # "0" THEN ""
    ELSE IF r.flags["PowerOn"] = "0" THEN "Power off"
    ELSE IF r.flags["AlarmState"] = "1" THEN "Alarm"
    ELSE IF r.flags["SetUp"] = "1" THEN "Setup"
    ELSE IF r.flags["Maintenance"] = "1" THEN "Maintenance"
    ELSE IF r.flags["NoOperator"] = "1" THEN "No operator"
    ELSE IF r.flags["Wait"] = "1" THEN "Waiting"
    ELSE IF r.flags["FeedHoldState"] = "1" THEN "Feed Hold"
    ELSE IF r.flags["ProgramStopState"] = "1" THEN "Program Stop"
    ELSE "Idle"

\* lines 1080-1091: the reason of a sample ("Alarm" stands for "Alarm: " and the
\* message or number of the alarm)
Reason(r) ==
    IF r.run # "0" THEN ""
    ELSE IF r.flags["AlarmState"] = "1" THEN "Alarm"
    ELSE IF r.flags["PowerOn"] = "0" THEN "Power off"
    ELSE IF r.flags["SetUp"] = "1" THEN "Setup"
    ELSE IF r.flags["Maintenance"] = "1" THEN "Maintenance"
    ELSE IF r.flags["NoOperator"] = "1" THEN "No operator"
    ELSE IF r.flags["Wait"] = "1" THEN "Waiting"
    ELSE IF r.flags["FeedHoldState"] = "1" THEN "Feed Hold"
    ELSE IF r.flags["ProgramStopState"] = "1" THEN "Program Stop"
    ELSE "Idle"

\* a variant that takes the reason of the last idle sample
DowntimeStepLastReason(st, r) ==
    LET st1 ==
            IF st.prev_run \in {"None", "1"} /\ r.run = "0"
            THEN [st EXCEPT !.dt_start = r.ts, !.dt_reason = Reason(r)]
            ELSE IF st.prev_run = "0" /\ r.run = "1" /\ st.dt_start # None
                 THEN [st EXCEPT
                         !.downtimes =
                             IF DurationOf(r.ts - st.dt_start) > 0
                             THEN Append(@, [start |-> st.dt_start, end |-> r.ts,
                                             duration |-> DurationOf(r.ts - st.dt_start),
                                             reason |-> st.dt_reason,
                                             ongoing |-> FALSE])
                             ELSE @,
                         !.dt_start = None]
                 ELSE IF r.run = "0" THEN [st EXCEPT !.dt_reason = Reason(r)]
                 ELSE st
    IN  [st1 EXCEPT !.prev_run = r.run]

KeepAllDowntimes(dur) == TRUE

\* lines 1096, 1104: a downtime of duration 0 is not emitted
KeepDowntime(dur) == dur > 0

\* lines 1078-1100: one sample of the loop of analyze_downtime
DowntimeStep(st, r) ==
    LET st1 ==
            IF st.prev_run \in {"None", "1"} /\ r.run = "0"
            THEN [st EXCEPT !.dt_start = r.ts, !.dt_reason = Reason(r)]
            ELSE IF st.prev_run = "0" /\ r.run = "1" /\ st.dt_start # None
                 THEN [st EXCEPT
                         !.downtimes =
                             IF KeepDowntime(DurationOf(r.ts - st.dt_start))
                             THEN Append(@, [start |-> st.dt_start, end |-> r.ts,
                                             duration |-> DurationOf(r.ts - st.dt_start),
                                             reason |-> st.dt_reason,
                                             ongoing |-> FALSE])
                             ELSE @,
                         !.dt_start = None]
                 ELSE st
    IN  [st1 EXCEPT !.prev_run = r.run]

RECURSIVE DowntimeLoop(_, _)
DowntimeLoop(st, mrows) ==
    IF mrows = <<>> THEN st ELSE DowntimeLoop(DowntimeStep(st, Head(mrows)), Tail(mrows))

\* a variant that excludes the sample of 06:30 too
NightExcludedThrough0630(ts) == 3600 <= ts % 86400 /\ ts % 86400 <= 23400

\* lines 1069-1076: samples from 01:00 to 06:30 do not count for the efficiency
NightExcluded(ts) == 3600 <= ts % 86400 /\ ts % 86400 < 23400
CountOf(mrows, run) ==
    Cardinality({i \in DOMAIN mrows : ~NightExcluded(mrows[i].ts) /\ mrows[i].run = run})

\* lines 1059-1114, for the rows of one machine
analyze_downtime(machine_rows) ==
    LET mrows == SortByDate(machine_rows)
        st == DowntimeLoop(DowntimeStart, mrows)
        dur == DurationOf(mrows[Len(mrows)].ts - st.dt_start)
    IN  [downtimes |->
            IF st.dt_start # None /\ KeepDowntime(dur)
            THEN Append(st.downtimes,
                        [start |-> st.dt_start, end |-> None, duration |-> dur,
                         reason |-> st.dt_reason, ongoing |-> TRUE])
            ELSE st.downtimes,
         total_run  |-> CountOf(mrows, "1"),
         total_down |-> CountOf(mrows, "0"),
         total_min  |-> Cardinality({i \in DOMAIN mrows : ~NightExcluded(mrows[i].ts)})]

\* main, line 2454
AnalyzeCycles ==
    /\ seg_pc = "loaded"
    /\ seg_cycles' = analyze_cycles(rows)
    /\ seg_pc' = "cycles"
    /\ UNCHANGED <<rows, seg_downtimes, alert_vars, db_vars, call_vars>>

\* main, line 2459
AnalyzeDowntime ==
    /\ seg_pc = "cycles"
    /\ seg_downtimes' = analyze_downtime(rows)
    /\ seg_pc' = "done"
    /\ UNCHANGED <<rows, seg_cycles, alert_vars, db_vars, call_vars>>

\* the time-ordered sample series of at most MaxRows samples
RECURSIVE SeriesOfLen(_)
SeriesOfLen(n) ==
    IF n = 0 THEN {<<>>}
    ELSE {Append(rs, r) : <<rs, r>> \in
            {p \in SeriesOfLen(n - 1) \X Samples :
                p[1] = <<>> \/ p[1][Len(p[1])].ts <= p[2].ts}}
SampleSeries == UNION {SeriesOfLen(n) : n \in 0..MaxRows}

SegInit ==
    /\ rows \in SampleSeries
    /\ seg_pc = "loaded"
    /\ seg_cycles = <<>>
    /\ seg_downtimes = NoDowntimeData

InitSeg == AlertInit /\ SegInit /\ init_db /\ NoCall

SegNext == AnalyzeCycles \/ AnalyzeDowntime
\* the segmentation of any sample series of one machine
SpecSeg == InitSeg /\ [][SegNext]_vars

\* ------------------------------------------------ malformed samples
HOURS_BACK == 24
\* a sample whose Date does not parse (ts = None) and a sample without RunState
\* (csv.DictReader gives None for a field a row does not have)
MalformedSamples ==
    [ts : {None}, run : {"1"}, prog : IdleLabels, flags : {NoFlags}]
        \cup [ts : {20}, run : {"None"}, prog : IdleLabels, flags : {NoFlags}]
\* the series with one malformed sample among the samples of a time-ordered series
MalformedSeries ==
    {SubSeq(t[1], 1, t[3]) \o <<t[2]>> \o SubSeq(t[1], t[3] + 1, Len(t[1])) :
        t \in {t \in (UNION {SeriesOfLen(n) : n \in 0..(MaxRows - 1)})
                        \X MalformedSamples \X (0..(MaxRows - 1)) :
                /\ t[3] <= Len(t[1])
                /\ t[2].ts # None =>
                      /\ \A j \in 1..t[3] : t[1][j].ts <= t[2].ts
                      /\ \A j \in (t[3] + 1)..Len(t[1]) : t[2].ts <= t[1][j].ts}}

\* line 900: strptime raises ValueError on a Date that does not parse, and max() on no
\* rows; main catches neither
filter_last_hours_raises(rs) == rs = <<>> \/ \E i \in DOMAIN rs : rs[i].ts = None

\* lines 898-906: the rows from the cutoff on
filter_last_hours(rs, hours) ==
    LET last_ts == CHOOSE t \in {rs[i].ts : i \in DOMAIN rs} :
                       \A i \in DOMAIN rs : rs[i].ts <= t
        cutoff  == IF hours >= 24 THEN (last_ts \div 86400) * 86400
                   ELSE last_ts - hours * 3600
        kept(r) == r.ts >= cutoff
    IN  SelectSeq(rs, kept)

LoadInit ==
    /\ rows \in MalformedSeries
    /\ seg_pc = "raw"
    /\ seg_cycles = <<>>
    /\ seg_downtimes = NoDowntimeData

\* main, line 2450
FilterLastHours ==
    /\ seg_pc = "raw"
    /\ IF filter_last_hours_raises(rows)
       THEN seg_pc' = "failed" /\ rows' = rows
       ELSE seg_pc' = "loaded" /\ rows' = filter_last_hours(rows, HOURS_BACK)
    /\ UNCHANGED <<seg_cycles, seg_downtimes, alert_vars, db_vars, call_vars>>

InitLoad == AlertInit /\ LoadInit /\ init_db /\ NoCall
LoadNext == FilterLastHours \/ AnalyzeCycles \/ AnalyzeDowntime
\* a run of main, up to the segmentation, on a series with a malformed sample
SpecLoad == InitLoad /\ [][LoadNext]_vars

RunInit ==
    /\ rows \in SampleSeries
    /\ seg_pc = "raw"
    /\ seg_cycles = <<>>
    /\ seg_downtimes = NoDowntimeData

InitRun == AlertInit /\ RunInit /\ init_db /\ NoCall
\* a run of main, up to the segmentation, on any series of well-formed samples, the
\* empty one included
SpecRun == InitRun /\ [][LoadNext]_vars

\* ------------------------------------------------ the reason of a downtime
\* some of the 256 values of the columns: none, an alarm, a setup without power
FewFlags ==
    {NoFlags,
     [NoFlags EXCEPT !["AlarmState"] = "1"],
     [NoFlags EXCEPT !["PowerOn"] = "0", !["SetUp"] = "1"]}
\* idle samples with some of the values, and a running sample, at any timestamp
FlaggedSamples ==
    [ts : {0, 20}, run : {"0"}, prog : IdleLabels, flags : FewFlags]
        \cup [ts : {0, 20}, run : {"1"}, prog : IdleLabels, flags : {NoFlags}]
RECURSIVE FlaggedSeriesOfLen(_)
FlaggedSeriesOfLen(n) ==
    IF n = 0 THEN {<<>>}
    ELSE {Append(p[1], p[2]) :
            p \in {q \in FlaggedSeriesOfLen(n - 1) \X FlaggedSamples :
                     q[1] = <<>> \/ q[1][Len(q[1])].ts <= q[2].ts}}
\* the time-ordered series of 1 to MaxRows of these samples, and an idle sample with
\* any value of the columns followed by a running sample
FlaggedSeries ==
    UNION {FlaggedSeriesOfLen(n) : n \in 1..MaxRows}
        \cup {<<[ts |-> 0, run |-> "0", prog |-> <<"A","-","P","1">>, flags |-> f],
                [ts |-> 20, run |-> "1", prog |-> <<"A","-","P","1">>, flags |-> NoFlags]>> :
                 f \in [FlagColumns -> {"0", "1"}]}

ReasonInit ==
    /\ rows \in FlaggedSeries
    /\ seg_pc = "loaded"
    /\ seg_cycles = <<>>
    /\ seg_downtimes = NoDowntimeData

InitReason == AlertInit /\ ReasonInit /\ init_db /\ NoCall
\* the segmentation of the series of one machine whose idle samples report conditions
SpecReason == InitReason /\ [][SegNext]_vars

\* ======================================================================
\* Part C: the historical store
\* ======================================================================
\* how many times save_to_db runs on the same data
MaxSaves == 2
\* the machine the samples belong to, and date_str of the period (main, line 2451)
TheMachine == "M1"
TheDate == "D0"

\* round(num / den, 0) as Python rounds: to the nearest, a tie to the even one
RoundHalfEven(num, den) ==
    LET q == num \div den
        r == num % den
    IN  IF 2 * r < den THEN q
        ELSE IF 2 * r > den THEN q + 1
        ELSE IF q % 2 = 0 THEN q ELSE q + 1

RECURSIVE SumDurations(_)
SumDurations(c_list) ==
    IF c_list = <<>> THEN 0 ELSE Head(c_list).duration + SumDurations(Tail(c_list))

\* strftime("%H:%M"): the minute of the day
FormatHM(ts) == <<"HM", (ts % 86400) \div 60>>

\* lines 769-778: the daily_summary row; avg_cycle and efficiency in tenths
SummaryRow(c_list, d_data) ==
    [run_min    |-> d_data.total_run,
     down_min   |-> d_data.total_down,
     total_min  |-> d_data.total_min,
     cycles     |-> Len(c_list),
     avg_cycle  |-> IF c_list # <<>>
                    THEN RoundHalfEven(SumDurations(c_list), 10 * Len(c_list)) ELSE 0,
     efficiency |-> IF d_data.total_min # 0
                    THEN RoundHalfEven(d_data.total_run * 1000, d_data.total_min) ELSE 0]

\* lines 786-789
CycleRow(date_str, mname, c) ==
    [date |-> date_str, machine |-> mname, program |-> c.program,
     start_time |-> IF c.start # None THEN FormatHM(c.start) ELSE <<EmDash>>,
     end_time   |-> IF c.end # None THEN FormatHM(c.end) ELSE <<EmDash>>,
     duration   |-> c.duration]

\* lines 797-800 (the reason column is left out)
DowntimeRow(date_str, mname, d) ==
    [date |-> date_str, machine |-> mname,
     start_time |-> FormatHM(d.start),
     end_time   |-> IF d.end # None THEN FormatHM(d.end) ELSE <<"ongoing">>,
     duration   |-> d.duration]

\* INSERT OR REPLACE on the primary key (date, machine) (lines 774-778)
InsertOrReplace(table, key, row) ==
    [k \in DOMAIN table \cup {key} |-> IF k = key THEN row ELSE table[k]]

\* INSERT OR IGNORE into a table whose only key is id INTEGER PRIMARY KEY AUTOINCREMENT
\* (lines 749-759, 782-800): the new id collides with no row, so the row is inserted
InsertOrIgnore(table, row) ==
    Append(table, [id |-> Len(table) + 1, row |-> row])

RECURSIVE InsertAll(_, _)
InsertAll(table, new_rows) ==
    IF new_rows = <<>> THEN table
    ELSE InsertAll(InsertOrIgnore(table, Head(new_rows)), Tail(new_rows))

\* lines 765-802, for the one machine of the samples (no machine when there are no rows)
save_to_db(date_str, c_list, d_data) ==
    /\ daily_summary' =
          InsertOrReplace(daily_summary, <<date_str, TheMachine>>, SummaryRow(c_list, d_data))
    /\ cycle_events' =
          InsertAll(cycle_events,
                    [i \in DOMAIN c_list |-> CycleRow(date_str, TheMachine, c_list[i])])
    /\ downtime_events' =
          InsertAll(downtime_events,
                    [i \in DOMAIN d_data.downtimes |->
                        DowntimeRow(date_str, TheMachine, d_data.downtimes[i])])

\* main, lines 2462-2463, with the cycles as split_schedule_cycles returns them when
\* there is no machining-result file (lines 965-968): unchanged
SaveToDb ==
    /\ seg_pc = "done"
    /\ db_saves < MaxSaves
    /\ IF rows = <<>>
       THEN UNCHANGED <<daily_summary, cycle_events, downtime_events>>
       ELSE save_to_db(TheDate, seg_cycles, seg_downtimes)
    /\ db_saves' = db_saves + 1
    /\ UNCHANGED <<alert_vars, seg_vars, call_vars>>

DbNext == AnalyzeCycles \/ AnalyzeDowntime \/ SaveToDb
\* the analysis of a sample series, saved once or more
SpecDb == InitSeg /\ [][DbNext]_vars

\* ------------------------------------------------ samples of the night
\* 00:59 and 01:00 of one day, 06:29:59 and 06:30 of the next
NightTimestamps == {3540, 3600, 109799, 109800}
NightSamples ==
    [ts : NightTimestamps, run : RunStates, prog : IdleLabels, flags : {NoFlags}]
RECURSIVE NightSeriesOfLen(_)
NightSeriesOfLen(n) ==
    IF n = 0 THEN {<<>>}
    ELSE {Append(rs, r) : <<rs, r>> \in
            {p \in NightSeriesOfLen(n - 1) \X NightSamples :
                p[1] = <<>> \/ p[1][Len(p[1])].ts <= p[2].ts}}
NightSeries == UNION {NightSeriesOfLen(n) : n \in 0..MaxRows}

NightInit ==
    /\ rows \in NightSeries
    /\ seg_pc = "loaded"
    /\ seg_cycles = <<>>
    /\ seg_downtimes = NoDowntimeData

InitNight == AlertInit /\ NightInit /\ init_db /\ NoCall
\* the analysis, saved, of a sample series around the hours of the night
SpecNight == InitNight /\ [][DbNext]_vars

\* ======================================================================
\* Part D: functions called on their own
\* ======================================================================
\* ------------------------------------------------- parse_program_name
\* The labels are built from their parts: stem [join number] [side] [sep] [op] digit
\* [extension], e.g. WF861 - 100 L - P 2 .MIN
Stems == { <<"W","F","8","6","1">>, <<"W","F","0","8","0","-","9","2","0">>, <<"F","O">>, <<"A","1","0">>, <<"A",".","1">> }
Numbers == { <<>>, <<"1","0","0">>, <<"1","0","1">> }
Sides == { <<>>, <<"L">>, <<"R">> }
Separators == { <<"-">>, <<"_">>, <<>> }
OpWords == { <<"P">>, <<"O","P">>, <<>> }
OpDigits == { "2", "3" }
Extensions == { <<>>, <<".","M","I","N">>, <<".","P","R","G">> }
LetterCases == { "upper", "lower", "lower_ext" }
LabelForms ==
    {f \in [stem : Stems, join : {<<"-">>, <<"_">>}, num : Numbers, side : Sides,
            sep : Separators, op : OpWords, digit : OpDigits, ext : Extensions,
            case : LetterCases] :
        /\ f.num = <<>> => f.join = <<"-">>
        /\ f.op = <<>> => f.sep # <<>>}
\* the part of the label before the operation suffix
BodyOf(f) == f.stem \o (IF f.num # <<>> THEN f.join \o f.num ELSE <<>>) \o f.side
LabelOf(f) ==
    LET name == BodyOf(f) \o f.sep \o f.op \o <<f.digit>>
    IN  CASE f.case = "upper" -> name \o f.ext
          [] f.case = "lower" -> LowerStr(name \o f.ext)
          [] f.case = "lower_ext" -> name \o LowerStr(f.ext)
\* the form written with '-', pN, side L, 100, .MIN, in upper case
CanonicalForm(f) ==
    [f EXCEPT !.join = <<"-">>,
              !.num = IF @ # <<>> THEN <<"1","0","0">> ELSE <<>>,
              !.side = IF @ # <<>> THEN <<"L">> ELSE <<>>,
              !.sep = <<"-">>,
              !.op = IF @ # <<>> THEN <<"P">> ELSE <<>>,
              !.ext = <<".","M","I","N">>,
              !.case = "upper"]

\* a label and its canonical writing are handed to parse_program_name
NamesInit ==
    /\ call_pc = "ready"
    /\ call_args \in {[fn |-> "parse_program_name", form |-> f,
                       a |-> LabelOf(CanonicalForm(f)), b |-> LabelOf(f)] : f \in LabelForms}
    /\ call_result = None

\* lines 126-139, on both labels
ParseProgramNames ==
    /\ call_pc = "ready"
    /\ call_args.fn = "parse_program_name"
    /\ call_result' = <<parse_program_name(call_args.a), parse_program_name(call_args.b)>>
    /\ call_pc' = "returned"
    /\ UNCHANGED <<call_args, alert_vars, seg_vars, db_vars>>

InitNames == AlertInit /\ SegIdle /\ init_db /\ NamesInit
\* parse_program_name on the writings of a label
SpecNames == InitNames /\ [][ParseProgramNames]_vars

\* the labels of at most 2 characters out of the sentinel, a letter, a hyphen, a digit
EdgeCharacters == {EmDash, "A", "-", "1"}
EdgeLabels == UNION {[1..n -> EdgeCharacters] : n \in 0..2}
EdgeInit ==
    /\ call_pc = "ready"
    /\ call_args \in [fn : {"parse_program_name"}, a : EdgeLabels, b : EdgeLabels]
    /\ call_result = None

InitEdge == AlertInit /\ SegIdle /\ init_db /\ EdgeInit
\* parse_program_name on two short labels, the empty one and the sentinel included
SpecEdge == InitEdge /\ [][ParseProgramNames]_vars

\* ------------------------------------------- calculate_real_cycle_time
\* Durations are in hundredths of a minute.
\* the number of durations handed to the clustering
MaxDurations == 5
DurationValues == {40, 500, 600, 650, 2000}
DurationLists == UNION {[1..n -> DurationValues] : n \in 0..MaxDurations}

\* twice the median of a sorted list (lines 406-409, 442-445)
MedianTwice(sorted) ==
    LET n == Len(sorted)
    IN  IF n % 2 = 0 THEN sorted[n \div 2] + sorted[n \div 2 + 1]
        ELSE 2 * sorted[n \div 2 + 1]

\* value - window <= d <= value + window, with window = median * 0.30 (lines 412, 417)
WithinWindow(value, d, median_twice) == 20 * Abs(d - value) <= 3 * median_twice

\* a variant that takes the first of the tied centers
FirstCenter(centers, n) == CHOOSE i \in centers : \A j \in centers : i <= j

\* lines 425-429: of the tied centers the one whose index (from 0) is nearest to n / 2,
\* the first of them in the sorted list when two are equally near
PickCenter(centers, n) ==
    CHOOSE i \in centers :
        \A j \in centers :
            \/ Abs(2 * (i - 1) - n) < Abs(2 * (j - 1) - n)
            \/ Abs(2 * (i - 1) - n) = Abs(2 * (j - 1) - n) /\ i <= j

\* lines 389-447
calculate_real_cycle_time(durations) ==
    IF Len(durations) < 3 THEN None
    ELSE LET sorted_durations == SortSeq(durations, LAMBDA a, b : a < b)
             n == Len(sorted_durations)
             median_twice == MedianTwice(sorted_durations)
             neighbor_count(i) ==
                 Cardinality({j \in 1..n :
                     WithinWindow(sorted_durations[i], sorted_durations[j], median_twice)})
             max_neighbors ==
                 CHOOSE c \in {neighbor_count(i) : i \in 1..n} :
                     \A i \in 1..n : neighbor_count(i) <= c
             centers == {i \in 1..n : neighbor_count(i) = max_neighbors}
             center == PickCenter(centers, n)
             cluster == SelectSeq(sorted_durations,
                            LAMBDA d : WithinWindow(sorted_durations[center], d, median_twice))
         IN  IF cluster = <<>> THEN None
             ELSE RoundHalfEven(MedianTwice(cluster), 2)

ClusterInit ==
    /\ call_pc = "ready"
    /\ call_args \in {[fn |-> "calculate_real_cycle_time", durations |-> d] :
                        d \in DurationLists}
    /\ call_result = None

CalculateRealCycleTime ==
    /\ call_pc = "ready"
    /\ call_args.fn = "calculate_real_cycle_time"
    /\ call_result' = calculate_real_cycle_time(call_args.durations)
    /\ call_pc' = "returned"
    /\ UNCHANGED <<call_args, alert_vars, seg_vars, db_vars>>

InitCluster == AlertInit /\ SegIdle /\ init_db /\ ClusterInit
\* calculate_real_cycle_time on a list of durations
SpecCluster == InitCluster /\ [][CalculateRealCycleTime]_vars

\* ------------------------------------------ calculate_cycle_time_smart
\* the number of counter records of machining_results.csv
MaxRecords == 2
\* RunStateTime (seconds) and Counter of a counter record: 4.5 min a part, 100 s for
\* 3 parts, no run time, no count
RunTimeAndCounter == {<<270, 1>>, <<100, 3>>, <<0, 3>>, <<270, 0>>}
CounterRecords ==
    {[MachineName |-> m, ProgramFileName |-> p, RunStateTime |-> rc[1], Counter |-> rc[2]] :
        m \in Machines, p \in Labels, rc \in RunTimeAndCounter}
CounterFiles == UNION {[1..n -> CounterRecords] : n \in 0..MaxRecords}
\* the cycles of one program: completed, ongoing, or a part of a split cycle
CycleDurations == {40, 600}
CycleKinds ==
    {[start |-> 0, end |-> 100, program |-> <<"A","-","P","1">>, duration |-> d,
      ongoing |-> FALSE] : d \in CycleDurations}
    \cup {[start |-> 0, end |-> None, program |-> <<"A","-","P","1">>, duration |-> 900,
           ongoing |-> TRUE]}
    \cup {[start |-> None, end |-> None, program |-> <<"A","-","P","1">>, duration |-> 300,
           ongoing |-> FALSE, split_from_schedule |-> TRUE]}
CycleLists == UNION {[1..n -> CycleKinds] : n \in 0..MaxDurations}
\* five completed cycles of 6.0 minutes; none
FiveCycles == [i \in 1..5 |-> [start |-> 0, end |-> 100, program |-> <<"A","-","P","1">>,
                               duration |-> 600, ongoing |-> FALSE]]
FewCycleLists == {<<>>, FiveCycles}
\* no record; a record of another program; a record of the program without run time
FewCounterFiles ==
    {<<>>,
     <<[MachineName |-> "M1", ProgramFileName |-> <<"A","-","P","2">>,
        RunStateTime |-> 270, Counter |-> 1]>>,
     <<[MachineName |-> "M1", ProgramFileName |-> <<"A","-","P","1">>,
        RunStateTime |-> 0, Counter |-> 3]>>}

\* dict.get(key, default)
Get(d, key, default) == IF key \in DOMAIN d THEN d[key] ELSE default

\* lines 312-330: the records of the machine and program that have a run time and a count
MatchingRecords(machine_name, program_name, mr_data) ==
    SelectSeq(mr_data, LAMBDA mr :
        /\ mr.MachineName = machine_name
        /\ parse_program_name(mr.ProgramFileName) = parse_program_name(program_name)
        /\ mr.RunStateTime > 0 /\ mr.Counter > 0)

\* a cycle time run_time / counter / 60 is kept as the fraction <<run_time, counter * 60>>
CycleTimeOf(mr) == <<mr.RunStateTime, mr.Counter * 60>>
FractionLess(x, y) == x[1] * y[2] < y[1] * x[2]

\* a variant that takes the lower of the two middle values
MedianOfFractionsLower(cycle_times) ==
    LET sorted_times == SortSeq(cycle_times, FractionLess)
        mid == sorted_times[(Len(sorted_times) + 1) \div 2]
    IN  RoundHalfEven(100 * mid[1], mid[2])

\* lines 338-348: the median of the cycle times, rounded to hundredths of a minute
MedianOfFractions(cycle_times) ==
    LET sorted_times == SortSeq(cycle_times, FractionLess)
        n == Len(sorted_times)
        lo == sorted_times[n \div 2]
        hi == sorted_times[n \div 2 + 1]
    IN  IF n % 2 = 0
        THEN RoundHalfEven(100 * (lo[1] * hi[2] + hi[1] * lo[2]), 2 * lo[2] * hi[2])
        ELSE RoundHalfEven(100 * hi[1], hi[2])

\* lines 286-351
get_actual_cycle_time_from_mr(machine_name, program_name, mr_data) ==
    LET matching == MatchingRecords(machine_name, program_name, mr_data)
        cycle_times == [i \in DOMAIN matching |-> CycleTimeOf(matching[i])]
    IN  IF cycle_times = <<>> THEN None ELSE MedianOfFractions(cycle_times)

DurationsOf(cycles_list) == [i \in DOMAIN cycles_list |-> cycles_list[i].duration]

\* a variant that keeps the ongoing cycles
filter_completed_cyclesWithOngoing(cycles_list) ==
    DurationsOf(SelectSeq(cycles_list, LAMBDA c :
        /\ ~Get(c, "split_from_schedule", FALSE)
        /\ ~(c.duration < 50)))

\* lines 354-386: the durations of the cycles that have an end, are no part of a split
\* cycle and last 0.5 minutes or more
filter_completed_cycles(cycles_list) ==
    DurationsOf(SelectSeq(cycles_list, LAMBDA c :
        /\ c.end # None
        /\ ~Get(c, "split_from_schedule", FALSE)
        /\ ~(c.duration < 50)))

\* a variant that asks the cycles first
calculate_cycle_time_smartCyclesFirst(machine_name, program_name, cycles_list, mr_data) ==
    LET good_durations == filter_completed_cycles(cycles_list)
    IN  IF Len(good_durations) >= 3 THEN calculate_real_cycle_time(good_durations)
        ELSE get_actual_cycle_time_from_mr(machine_name, program_name, mr_data)

\* lines 450-484
calculate_cycle_time_smart(machine_name, program_name, cycles_list, mr_data) ==
    LET actual_time == get_actual_cycle_time_from_mr(machine_name, program_name, mr_data)
        good_durations == filter_completed_cycles(cycles_list)
        all_durations == DurationsOf(SelectSeq(cycles_list, LAMBDA c : c.duration > 0))
    IN  IF actual_time # None THEN actual_time
        ELSE IF Len(good_durations) >= 3 THEN calculate_real_cycle_time(good_durations)
        ELSE IF Len(all_durations) >= 3 THEN calculate_real_cycle_time(all_durations)
        ELSE None

\* any counter file with a few cycle lists, and any cycle list with a few counter files
EstimateInit ==
    /\ call_pc = "ready"
    /\ call_args \in
          {[fn |-> "calculate_cycle_time_smart", machine_name |-> "M1",
            program_name |-> <<"A","-","P","1">>, cycles_list |-> in[1], mr_data |-> in[2]] :
              in \in (FewCycleLists \X CounterFiles) \cup (CycleLists \X FewCounterFiles)}
    /\ call_result = None

CalculateCycleTimeSmart ==
    /\ call_pc = "ready"
    /\ call_args.fn = "calculate_cycle_time_smart"
    /\ call_result' = calculate_cycle_time_smart(call_args.machine_name, call_args.program_name,
                                                 call_args.cycles_list, call_args.mr_data)
    /\ call_pc' = "returned"
    /\ UNCHANGED <<call_args, alert_vars, seg_vars, db_vars>>

InitEstimate == AlertInit /\ SegIdle /\ init_db /\ EstimateInit
\* calculate_cycle_time_smart on the cycles of a program and a counter file
SpecEstimate == InitEstimate /\ [][CalculateCycleTimeSmart]_vars

\* ------------------------------------------------ the tiers of the estimate
\* the cycles of one program: completed ones of 6, 7 and 0.4 minutes, an ongoing one
\* and a part of a split cycle of 5 minutes
TierCycleKinds ==
    {[start |-> 0, end |-> 100, program |-> <<"A","-","P","1">>, duration |-> d,
      ongoing |-> FALSE] : d \in {40, 600, 700}}
    \cup {[start |-> 0, end |-> None, program |-> <<"A","-","P","1">>, duration |-> 500,
           ongoing |-> TRUE],
          [start |-> None, end |-> None, program |-> <<"A","-","P","1">>, duration |-> 500,
           ongoing |-> FALSE, split_from_schedule |-> TRUE],
          [start |-> 100, end |-> None, program |-> <<"A","-","P","1">>, duration |-> 0,
           ongoing |-> TRUE]}
TierCycleLists == UNION {[1..n -> TierCycleKinds] : n \in 0..MaxDurations}
FewTierCycleLists == {cs \in TierCycleLists : Len(cs) <= 1} \cup {FiveCycles}
\* a counter record of the program on machine m with these RunStateTime and Counter
TierRecord(m, r, c) ==
    [MachineName |-> m, ProgramFileName |-> <<"a","_","o","p","1">>, RunStateTime |-> r,
     Counter |-> c]
\* files of counter records of the program, some with a Counter or a RunStateTime that
\* int() does not accept, for the machine or for the other one
TierFiles ==
    UNION {[1..n -> {TierRecord("M1", 270, 1), TierRecord("M1", 0, 3),
                     TierRecord("M1", 270, Unparseable), TierRecord("M1", Unparseable, 3),
                     TierRecord("M2", 270, Unparseable)}] : n \in 1..MaxRecords}

\* lines 325-326: int() of the RunStateTime or of the Counter of a record of the machine
\* and of the program raises ValueError
get_actual_cycle_time_from_mr_raises(machine_name, program_name, mr_data) ==
    \E i \in DOMAIN mr_data :
        /\ mr_data[i].MachineName = machine_name
        /\ parse_program_name(mr_data[i].ProgramFileName) = parse_program_name(program_name)
        /\ (mr_data[i].RunStateTime = Unparseable \/ mr_data[i].Counter = Unparseable)

TiersInit ==
    /\ call_pc = "ready"
    /\ call_args \in
          {[fn |-> "calculate_cycle_time_smart", machine_name |-> "M1",
            program_name |-> <<"A","-","P","1">>, cycles_list |-> in[1], mr_data |-> in[2]] :
              in \in (TierCycleLists \X {<<>>}) \cup (FewTierCycleLists \X TierFiles)}
    /\ call_result = None

\* check_and_alert, line 1376: the call returns an estimate or None, or raises (nothing
\* in calculate_cycle_time_smart or around the call catches the exception)
CalculateCycleTimeSmartOrRaise ==
    /\ call_pc = "ready"
    /\ call_args.fn = "calculate_cycle_time_smart"
    /\ IF get_actual_cycle_time_from_mr_raises(call_args.machine_name, call_args.program_name,
                                               call_args.mr_data)
       THEN call_pc' = "raised" /\ call_result' = None
       ELSE /\ call_result' =
                  calculate_cycle_time_smart(call_args.machine_name, call_args.program_name,
                                             call_args.cycles_list, call_args.mr_data)
            /\ call_pc' = "returned"
    /\ UNCHANGED <<call_args, alert_vars, seg_vars, db_vars>>

InitTiers == AlertInit /\ SegIdle /\ init_db /\ TiersInit
\* calculate_cycle_time_smart on cycles of all kinds, and on counter files that int()
\* does not accept
SpecTiers == InitTiers /\ [][CalculateCycleTimeSmartOrRaise]_vars

\* ------------------------------------------------ split_schedule_cycles
\* the number of cycles of the first machine
MaxCycles == 2
\* a cycle matches a counter record dated less than this many seconds from its end
MATCH_WINDOW_SEC == 300
\* counter records with a Date (seconds): the first machine's are of the program A-P1 in
\* another writing or of A-P2, dated 300 or 299 seconds before the end of the cycles,
\* with Counter 1 or 3, with a run time and, one of them, without
SplitRecords ==
    {[MachineName |-> "M1", ProgramFileName |-> p, Date |-> t, Counter |-> c,
      RunStateTime |-> 5400] :
        p \in {<<"a","_","o","p","1">>, <<"A","-","P","2">>}, t \in {300, 301},
        c \in {1, 3}}
    \cup {[MachineName |-> "M1", ProgramFileName |-> <<"a","_","o","p","1">>, Date |-> 301,
           Counter |-> 3, RunStateTime |-> 0],
          [MachineName |-> "M2", ProgramFileName |-> <<"a","_","o","p","1">>, Date |-> 301,
           Counter |-> 3, RunStateTime |-> 5400]}
SplitFiles == UNION {[1..n -> SplitRecords] : n \in 0..MaxRecords}
FewSplitFiles ==
    {<<>>,
     <<[MachineName |-> "M1", ProgramFileName |-> <<"a","_","o","p","1">>, Date |-> 301,
        Counter |-> 3, RunStateTime |-> 5400]>>,
     <<[MachineName |-> "M1", ProgramFileName |-> <<"a","_","o","p","1">>, Date |-> 301,
        Counter |-> 1, RunStateTime |-> 5400]>>,
     <<[MachineName |-> "M1", ProgramFileName |-> <<"a","_","o","p","1">>, Date |-> 301,
        Counter |-> 3, RunStateTime |-> 100]>>}
\* cycles as analyze_cycles emits them: of 10 minutes ending at 600 s, of no duration,
\* of another program, ongoing
SplitCycleKinds ==
    {[start |-> 0, end |-> 600, program |-> <<"A","-","P","1">>, duration |-> 1000,
      ongoing |-> FALSE],
     [start |-> 600, end |-> 600, program |-> <<"A","-","P","1">>, duration |-> 0,
      ongoing |-> FALSE],
     [start |-> 0, end |-> 600, program |-> <<"A","-","P","2">>, duration |-> 1000,
      ongoing |-> FALSE],
     [start |-> 600, end |-> None, program |-> <<"A","-","P","1">>, duration |-> 500,
      ongoing |-> TRUE]}
OtherMachineCycles ==
    <<[start |-> 0, end |-> 600, program |-> <<"A","-","P","1">>, duration |-> 1000,
       ongoing |-> FALSE]>>
CycleDicts ==
    {[m \in Machines |-> IF m = "M1" THEN c1 ELSE c2] :
        c1 \in UNION {[1..n -> SplitCycleKinds] : n \in 0..MaxCycles},
        c2 \in {<<>>, OtherMachineCycles}}
FewCycleDicts == {d \in CycleDicts : Len(d["M1"]) = 1 /\ d["M2"] # <<>>}

\* a variant that takes the last such record in file order
MatchedRecordLast(mname, cycle, mr_data) ==
    LET matches(mr) ==
            /\ mr.MachineName = mname
            /\ parse_program_name(mr.ProgramFileName) = parse_program_name(cycle.program)
            /\ cycle.end # None
            /\ Abs(mr.Date - cycle.end) < MATCH_WINDOW_SEC
        found == {k \in DOMAIN mr_data : matches(mr_data[k])}
    IN  IF found = {} THEN 0 ELSE CHOOSE k \in found : \A j \in found : k >= j

\* lines 1000-1018: the first record, in file order, of the machine and of the identity
\* of the cycle's program that is dated within 5 minutes of the cycle's end (0: none)
MatchedRecord(mname, cycle, mr_data) ==
    LET matches(mr) ==
            /\ mr.MachineName = mname
            /\ parse_program_name(mr.ProgramFileName) = parse_program_name(cycle.program)
            /\ cycle.end # None
            /\ Abs(mr.Date - cycle.end) < MATCH_WINDOW_SEC
        found == {k \in DOMAIN mr_data : matches(mr_data[k])}
    IN  IF found = {} THEN 0 ELSE CHOOSE k \in found : \A j \in found : k <= j

\* a variant that always divides the duration of the cycle
SubDurationOfCycle(cycle, mr) == RoundHalfEven(cycle.duration, mr.Counter)

\* lines 1023-1031: the duration of a part, in hundredths of a minute
SubDuration(cycle, mr) ==
    IF mr.RunStateTime > 0
    THEN RoundHalfEven(100 * mr.RunStateTime, mr.Counter * 60)
    ELSE RoundHalfEven(cycle.duration, mr.Counter)

\* a variant whose parts keep the end of the cycle
SubCyclesWithEnd(cycle, mr) ==
    [i \in 1..mr.Counter |->
        [start |-> None, end |-> cycle.end, program |-> cycle.program,
         duration |-> SubDuration(cycle, mr), ongoing |-> FALSE,
         split_from_schedule |-> TRUE]]

\* a variant whose parts keep the start and the end of the cycle
SubCyclesWithTimes(cycle, mr) ==
    [i \in 1..mr.Counter |->
        [start |-> cycle.start, end |-> cycle.end, program |-> cycle.program,
         duration |-> SubDuration(cycle, mr), ongoing |-> FALSE,
         split_from_schedule |-> TRUE]]

\* lines 1034-1044
SubCycles(cycle, mr) ==
    [i \in 1..mr.Counter |->
        [start |-> None, end |-> None, program |-> cycle.program,
         duration |-> SubDuration(cycle, mr), ongoing |-> FALSE,
         split_from_schedule |-> TRUE]]

\* a variant that splits whenever a record is matched, and the ongoing cycles too
SplitCycleAlways(mname, cycle, mr_data) ==
    LET k == MatchedRecord(mname, [cycle EXCEPT !.end = IF @ = None THEN 600 ELSE @], mr_data)
    IN  IF k # 0 /\ cycle.duration > 0 THEN SubCycles(cycle, mr_data[k]) ELSE <<cycle>>

\* a variant that keeps the cycle in front of its parts
SplitCycleKeepsCycle(mname, cycle, mr_data) ==
    LET k == MatchedRecord(mname, cycle, mr_data)
    IN  IF ~Get(cycle, "ongoing", FALSE) /\ k # 0 /\ cycle.duration > 0
           /\ mr_data[k].Counter > 1
        THEN <<cycle>> \o SubCycles(cycle, mr_data[k])
        ELSE <<cycle>>

\* lines 981-1047: what one cycle becomes
SplitCycle(mname, cycle, mr_data) ==
    IF Get(cycle, "ongoing", FALSE) THEN <<cycle>>
    ELSE LET k == MatchedRecord(mname, cycle, mr_data)
             counter == IF k = 0 THEN 1 ELSE mr_data[k].Counter
         IN  IF counter > 1 /\ cycle.duration > 0 /\ k # 0
             THEN SubCycles(cycle, mr_data[k])
             ELSE <<cycle>>

RECURSIVE SplitCycles(_, _, _)
SplitCycles(mname, cycles, mr_data) ==
    IF cycles = <<>> THEN <<>>
    ELSE SplitCycle(mname, Head(cycles), mr_data) \o SplitCycles(mname, Tail(cycles), mr_data)

\* lines 952-1057, with a machining-result file that can be read
split_schedule_cycles(cycles_dict, mr_data) ==
    [mname \in DOMAIN cycles_dict |-> SplitCycles(mname, cycles_dict[mname], mr_data)]

SplitInit ==
    /\ call_pc = "ready"
    /\ call_args \in
          {[fn |-> "split_schedule_cycles", cycles_dict |-> in[1], mr_data |-> in[2]] :
              in \in (CycleDicts \X FewSplitFiles) \cup (FewCycleDicts \X SplitFiles)}
    /\ call_result = None

\* main, line 2457
SplitScheduleCycles ==
    /\ call_pc = "ready"
    /\ call_args.fn = "split_schedule_cycles"
    /\ call_result' = split_schedule_cycles(call_args.cycles_dict, call_args.mr_data)
    /\ call_pc' = "returned"
    /\ UNCHANGED <<call_args, alert_vars, seg_vars, db_vars>>

InitSplit == AlertInit /\ SegIdle /\ init_db /\ SplitInit
\* split_schedule_cycles on the cycles of two machines and a counter file
SpecSplit == InitSplit /\ [][SplitScheduleCycles]_vars

\* split_schedule_cycles called again on the cycles it has returned, with the same
\* machining-result file
SplitAgain ==
    /\ call_pc = "returned"
    /\ call_args.fn = "split_schedule_cycles"
    /\ call_result' = split_schedule_cycles(call_result, call_args.mr_data)
    /\ call_pc' = "returned again"
    /\ UNCHANGED <<call_args, alert_vars, seg_vars, db_vars>>

\* split_schedule_cycles applied once and then once more
SpecSplitTwice == InitSplit /\ [][SplitScheduleCycles \/ SplitAgain]_vars

\* ------------------------------------------------ counter records that cannot be read
\* records of A-P1 for both machines, dated within 5 minutes of the end of the cycles,
\* with Counter 3: readable, or with one field that is not
BadRecords ==
    {[MachineName |-> "M1", ProgramFileName |-> <<"a","_","o","p","1">>, Date |-> t,
      Counter |-> c, RunStateTime |-> r] :
        <<t, c, r>> \in {<<301, 3, 5400>>, <<Unparseable, 3, 5400>>,
                         <<301, Unparseable, 5400>>, <<301, 3, Unparseable>>}}
    \cup {[MachineName |-> "M2", ProgramFileName |-> <<"a","_","o","p","1">>, Date |-> 301,
           Counter |-> 3, RunStateTime |-> r] : r \in {5400, Unparseable}}
BadFiles == UNION {[1..n -> BadRecords] : n \in 0..MaxRecords}
\* one or two completed 10-minute cycles of the first machine, one or none of the second
BadFileCycles ==
    {[m \in Machines |-> IF m = "M1" THEN c1 ELSE c2] :
        c1 \in {OtherMachineCycles, OtherMachineCycles \o OtherMachineCycles},
        c2 \in {<<>>, OtherMachineCycles}}
\* cycles_dict.items(): the machines in the order of their first sample
MachineOrders == {<<"M1", "M2">>, <<"M2", "M1">>}

\* lines 1008-1018: a record whose Date or Counter raises is passed over (`except:
\* continue`), and the search goes on with the next record
IsSearched(mr) == mr.Date # Unparseable /\ mr.Counter # Unparseable
Searched(mr_data) == SelectSeq(mr_data, IsSearched)

\* line 1023: int() of the RunStateTime of the record found, outside the inner try
SplitCycleRaises(mname, cycle, mr_data) ==
    LET k == MatchedRecord(mname, cycle, Searched(mr_data))
    IN  /\ ~Get(cycle, "ongoing", FALSE)
        /\ k # 0
        /\ Searched(mr_data)[k].Counter > 1
        /\ cycle.duration > 0
        /\ Searched(mr_data)[k].RunStateTime = Unparseable

\* lines 979-1047: the loop over the cycles of a machine raises
MachineRaises(mname, cycles, mr_data) ==
    \E i \in DOMAIN cycles : SplitCycleRaises(mname, cycles[i], mr_data)

\* lines 970-1057: the machines are done in order, `cycles_dict[mname] = new_cycles`
\* one after the other; an exception ends the loop, and the cycles as they are then
\* are returned with an empty list of records (line 1057)
split_schedule_cycles_try(order, cycles_dict, mr_data) ==
    LET raising == {j \in DOMAIN order :
                       MachineRaises(order[j], cycles_dict[order[j]], mr_data)}
        first   == IF raising = {} THEN Len(order) + 1
                   ELSE CHOOSE j \in raising : \A k \in raising : j <= k
    IN  [cycles  |-> [m \in DOMAIN cycles_dict |->
                        IF \E j \in 1..(first - 1) : order[j] = m
                        THEN SplitCycles(m, cycles_dict[m], Searched(mr_data))
                        ELSE cycles_dict[m]],
         mr_data |-> IF raising = {} THEN mr_data ELSE <<>>]

BadFileInit ==
    /\ call_pc = "ready"
    /\ call_args \in [fn : {"split_schedule_cycles"}, order : MachineOrders,
                       cycles_dict : BadFileCycles, mr_data : BadFiles]
    /\ call_result = None

\* main, line 2457
SplitWithBadFile ==
    /\ call_pc = "ready"
    /\ call_args.fn = "split_schedule_cycles"
    /\ call_result' = split_schedule_cycles_try(call_args.order, call_args.cycles_dict,
                                                call_args.mr_data)
    /\ call_pc' = "returned"
    /\ UNCHANGED <<call_args, alert_vars, seg_vars, db_vars>>

InitBadFile == AlertInit /\ SegIdle /\ init_db /\ BadFileInit
\* split_schedule_cycles on a counter file with records that cannot be read
SpecBadFile == InitBadFile /\ [][SplitWithBadFile]_vars

\* records of A-P1 dated 300 or 299 seconds before the end of the cycles, with Counter
\* 1, 3 or a Counter that int does not accept, and a record of the other machine
FirstRecordRecords ==
    {[MachineName |-> "M1", ProgramFileName |-> <<"a","_","o","p","1">>, Date |-> t,
      Counter |-> c, RunStateTime |-> 5400] : t \in {300, 301}, c \in {1, 3, Unparseable}}
    \cup {[MachineName |-> "M2", ProgramFileName |-> <<"a","_","o","p","1">>, Date |-> 301,
           Counter |-> 3, RunStateTime |-> 5400]}
FirstRecordFiles == UNION {[1..n -> FirstRecordRecords] : n \in 0..MaxRecords}

FirstRecordInit ==
    /\ call_pc = "ready"
    /\ call_args \in [fn : {"split_schedule_cycles"}, order : {<<"M1", "M2">>},
                       cycles_dict : FewCycleDicts, mr_data : FirstRecordFiles]
    /\ call_result = None

InitFirstRecord == AlertInit /\ SegIdle /\ init_db /\ FirstRecordInit
\* split_schedule_cycles on one cycle and a counter file with several records for it
SpecFirstRecord == InitFirstRecord /\ [][SplitWithBadFile]_vars

\* ------------------------------------------------ analyze_cycles, then the split
\* a counter file for the sampled machine: three parts of A-P1 with a run time, three
\* of A-P2 without, both dated within 5 minutes of every sample
SegCounterFile ==
    <<[MachineName |-> TheMachine, ProgramFileName |-> <<"a","_","o","p","1">>,
       Date |-> 100, Counter |-> 3, RunStateTime |-> 5400],
      [MachineName |-> TheMachine, ProgramFileName |-> <<"A","-","P","2">>,
       Date |-> 20, Counter |-> 3, RunStateTime |-> 0]>>

\* the sample series with the labels A-P1 and A-P2
TwoLabelSeries ==
    {rs \in SampleSeries : \A i \in DOMAIN rs : rs[i].prog # <<"a","_","o","p","1">>}

SegSplitInit ==
    /\ rows \in TwoLabelSeries
    /\ seg_pc = "loaded"
    /\ seg_cycles = <<>>
    /\ seg_downtimes = NoDowntimeData
    /\ call_pc = "ready"
    /\ call_args = [fn |-> "split_schedule_cycles", cycles_dict |-> None,
                    mr_data |-> SegCounterFile]
    /\ call_result = None

\* main, line 2457: the cycles of analyze_cycles are replaced by the split ones
SplitSegCycles ==
    /\ seg_pc = "cycles"
    /\ call_pc = "ready"
    /\ LET cycles == [m \in {TheMachine} |-> seg_cycles]
           split == split_schedule_cycles(cycles, call_args.mr_data)
       IN  /\ call_args' = [call_args EXCEPT !.cycles_dict = cycles]
           /\ call_result' = split
           /\ seg_cycles' = split[TheMachine]
    /\ seg_pc' = "split"
    /\ call_pc' = "returned"
    /\ UNCHANGED <<rows, seg_downtimes, alert_vars, db_vars>>

InitSegSplit == AlertInit /\ init_db /\ SegSplitInit
SegSplitNext == AnalyzeCycles \/ SplitSegCycles
\* analyze_cycles followed by split_schedule_cycles, on any sample series of one machine
SpecSegSplit == InitSegSplit /\ [][SegSplitNext]_vars

\* ------------------------------------------------ the target of a program
\* the number of entries of the target table
MaxTargets == 2
\* machine names as the samples carry them
MachineNames == {<<"M","1","_","X">>, <<"M","2">>}
\* entries of the target table, keyed by (program, operation, machine): the program A
\* in two writings with two times, the program B, on the first machine, and an entry
\* of the second machine
TargetEntries ==
    {[program |-> e[1], op |-> o, machine |-> <<"m","1">>, time |-> e[2]] :
        e \in {<< <<"A">>, 100 >>, << <<"a",".","m","i","n">>, 200 >>, << <<"B">>, 100 >>},
        o \in {1, 2}}
    \cup {[program |-> <<"A">>, op |-> 1, machine |-> <<"M","2">>, time |-> 100]}
KeyOf(e) == <<e.program, e.op, e.machine>>
\* the tables, in the order of their rows; a key is held once
TargetTables ==
    UNION {{t \in [1..n -> TargetEntries] :
               \A i, j \in 1..n : i # j => KeyOf(t[i]) # KeyOf(t[j])} : n \in 0..MaxTargets}
\* no table, one entry, and two entries of one program, operation and machine
FewTargetTables ==
    {<<>>,
     <<[program |-> <<"A">>, op |-> 1, machine |-> <<"m","1">>, time |-> 100]>>,
     <<[program |-> <<"A">>, op |-> 1, machine |-> <<"m","1">>, time |-> 100],
       [program |-> <<"a",".","m","i","n">>, op |-> 1, machine |-> <<"m","1">>,
        time |-> 200]>>}
\* calculated cycle times: 15 % under, equal to, 10 %, 11 % and 150 % over a target
\* of 100
CalculatedTimes == {85, 100, 110, 111, 250}

\* line 1364
machine_short(mname) ==
    IF \E i \in DOMAIN mname : mname[i] = "_"
    THEN SubSeq(mname, 1,
                (CHOOSE i \in DOMAIN mname :
                    mname[i] = "_" /\ \A j \in 1..(i - 1) : mname[j] # "_") - 1)
    ELSE mname

\* lines 1381-1397: the time of the first entry of the program, operation and machine
excel_target(mname, prog, excel_targets) ==
    LET matches == {k \in DOMAIN excel_targets :
                       /\ normalize_program_name(prog)
                             = normalize_program_name(excel_targets[k].program)
                       /\ get_operation_number(prog) = excel_targets[k].op
                       /\ normalize_program_name(machine_short(mname))
                             = normalize_program_name(excel_targets[k].machine)}
    IN  IF matches = {} THEN None
        ELSE excel_targets[CHOOSE k \in matches : \A j \in matches : k <= j].time

\* a variant that measures the difference against the calculated time
diff_pctOfCalculated(calc_target, target) == <<(calc_target - target) * 100, calc_target>>

\* line 1402: the difference in per cent, as a fraction of a positive denominator
diff_pct(calc_target, target) == <<(calc_target - target) * 100, target>>

\* lines 1478-1483
status(diff) == IF diff[1] > 0 THEN "slower" ELSE "faster"

\* lines 1375-1415 and 1477-1483: what the run does about one program of a machine
target_alert(mname, prog, calc_target, excel_targets) ==
    LET target == excel_target(mname, prog, excel_targets)
    IN  IF calc_target = None \/ target = None \/ target = 0
        THEN [target |-> target, diff_pct |-> None, alert |-> FALSE, status |-> None,
              shown |-> None]
        ELSE LET diff == diff_pct(calc_target, target)
             IN  IF ExceedsTarget(calc_target, target)
                 THEN [target |-> target, diff_pct |-> diff, alert |-> TRUE,
                       status |-> status(diff),
                       shown |-> RoundHalfEven(Abs(diff[1]) * 10, diff[2])]
                 ELSE [target |-> target, diff_pct |-> diff, alert |-> FALSE,
                       status |-> None, shown |-> None]

TargetInit ==
    /\ call_pc = "ready"
    /\ call_args \in
          [fn : {"target_alert"}, mname : MachineNames, prog : Labels,
           calc_target : CalculatedTimes, excel_targets : FewTargetTables]
          \cup [fn : {"target_alert"}, mname : {<<"M","1","_","X">>},
                prog : {<<"a","_","o","p","1">>}, calc_target : {111},
                excel_targets : TargetTables]
    /\ call_result = None

\* check_and_alert, lines 1375-1415
TargetAlert ==
    /\ call_pc = "ready"
    /\ call_args.fn = "target_alert"
    /\ call_result' = target_alert(call_args.mname, call_args.prog, call_args.calc_target,
                                   call_args.excel_targets)
    /\ call_pc' = "returned"
    /\ UNCHANGED <<call_args, alert_vars, seg_vars, db_vars>>

InitTarget == AlertInit /\ SegIdle /\ init_db /\ TargetInit
\* the target check of check_and_alert on one program and a target table
SpecTarget == InitTarget /\ [][TargetAlert]_vars

\* entries of the program A, operation 1, for machines whose names are alike
AlikeMachineEntries ==
    [program : {<<"A">>}, op : {1},
     machine : {<<"M","1">>, <<"M","1","L">>, <<"M","1","0","0">>, <<"M","1","0","1">>,
                <<"M","2">>},
     time : {100, 200}]
AlikeMachineTables ==
    UNION {{t \in [1..n -> AlikeMachineEntries] :
               \A i, j \in 1..n : i # j => KeyOf(t[i]) # KeyOf(t[j])} : n \in 0..MaxTargets}

MachinesInit ==
    /\ call_pc = "ready"
    /\ call_args \in
          [fn : {"target_alert"},
           mname : {<<"M","1","_","X">>, <<"M","1","0","1","_","X">>},
           prog : {<<"A","-","P","1">>}, calc_target : {111},
           excel_targets : AlikeMachineTables]
    /\ call_result = None

InitMachines == AlertInit /\ SegIdle /\ init_db /\ MachinesInit
\* the target check with a table of entries for machines whose names are alike
SpecMachines == InitMachines /\ [][TargetAlert]_vars

\* ======================================================================
\* Properties of check_and_alert
\* ======================================================================
NewAlert(occ) == [key |-> occ, is_repeat |-> FALSE]
RepeatAlert(occ) == [key |-> occ, is_repeat |-> TRUE]
Alerted(p, occ) == NewAlert(occ) \in p.downtime_alerts \/ RepeatAlert(occ) \in p.downtime_alerts
\* the occurrences of an input that are at or over the alert threshold of 45 minutes
Qualifying(dts) == {occ \in DOMAIN dts : dts[occ].duration >= 45}
\* the local hour is in [20,24) or [0,8)
InQuietHours == now % 24 >= 20 \/ now % 24 < 8

C2_RepeatIffDelta ==
    [][(outcome' = "done" /\ ~reset_needed') =>
        \A occ \in DOMAIN downtimes' \cap DOMAIN sent_alerts :
            ~downtimes'[occ].has_end =>
                /\ RepeatAlert(occ) \in payload'.downtime_alerts
                     <=> downtimes'[occ].duration - sent_alerts[occ].duration >= 45
                /\ NewAlert(occ) \notin payload'.downtime_alerts
                /\ IF downtimes'[occ].duration - sent_alerts[occ].duration >= 45
                   THEN sent_alerts'[occ].duration = downtimes'[occ].duration
                   ELSE sent_alerts'[occ] = sent_alerts[occ]]_vars

\* a repeat alert has moved a stored duration to 96 (stored 50, then 90 observed
\* without an alert, then 96 observed)
C2_Witness ==
    /\ outcome = "done" /\ ~reset_needed
    /\ \E occ \in DOMAIN downtimes :
        /\ RepeatAlert(occ) \in payload.downtime_alerts
        /\ downtimes[occ].duration = 96
        /\ sent_alerts[occ].duration = 96

\* the delta is measured from the last alerted duration: 90 observed against a stored 50
\* is no alert and leaves 50 stored
C2_WitnessNoRepeat ==
    /\ outcome = "done" /\ ~reset_needed
    /\ \E occ \in DOMAIN downtimes :
        /\ downtimes[occ].duration = 90 /\ ~downtimes[occ].has_end
        /\ occ \in DOMAIN sent_alerts /\ sent_alerts[occ].duration = 50
        /\ ~Alerted(payload, occ)

\* C3: a run in quiet hours sends nothing and leaves the history file as it was.
C3_QuietHours ==
    [][(outcome' # "idle" /\ InQuietHours) =>
        /\ payload'.kind = "none"
        /\ payload'.downtime_alerts = {} /\ payload'.target_alerts = {}
        /\ alert_file' = alert_file]_vars

\* a run at 20:00 given a qualifying downtime sent nothing
C3_Witness ==
    /\ outcome = "silent" /\ now = 20
    /\ Qualifying(downtimes) # {}
    /\ payload.kind = "none"

\* a run at 07:00 given a deviation of 11 % sent nothing
C3_WitnessTarget ==
    /\ outcome = "silent" /\ now = 7
    /\ \E p \in DOMAIN targets : targets[p].calc = 111 /\ targets[p].target = 100
    /\ payload.kind = "none"

\* C5: a run that dies after delivering a 'new' downtime alert and before the history
\* is written is not followed by a run that reports the same occurrence as 'new' again.
C5_CrashDoesNotRefire ==
    [][(outcome = "crashed" /\ outcome' = "done") =>
        \A occ \in Occurrences :
            NewAlert(occ) \in payload.downtime_alerts
                => NewAlert(occ) \notin payload'.downtime_alerts]_vars

\* the run of this step is a run outside quiet hours that went as far as the write
Evaluated == outcome = "idle" /\ outcome' \in {"done", "raised"}

\* C35: a history file that is missing, unreadable or unwritable never aborts the run:
\* a run that cannot read or parse the file evaluates its downtimes against an empty
\* history, and a run that cannot write the file still completes.
C35_StoreNeverAborts ==
    [][Evaluated =>
        /\ file_state # "valid" =>
              /\ reset_needed'
              /\ payload'.downtime_alerts = DowntimeAlerts(EmptyDict, downtimes')
        /\ outcome' = "done"]_vars

\* what holds of the read: a run that cannot read or parse the file evaluates its
\* downtimes against an empty history
C35_UnreadableStoreIsEmpty ==
    [][(Evaluated /\ file_state # "valid") =>
        /\ reset_needed'
        /\ payload'.downtime_alerts = DowntimeAlerts(EmptyDict, downtimes')]_vars

\* C6: once more than 24 hours have passed since the keyed records were last
\* discarded, the next complete run outside quiet hours discards every keyed record
\* before it evaluates the downtimes: the records it leaves are those of the downtimes
\* it reports as 'new'.
C6_ResetAfter24h ==
    [][(outcome' = "done" /\ discarded_at # None /\ now - discarded_at > 24) =>
        \A occ \in DOMAIN sent_alerts' : NewAlert(occ) \in payload'.downtime_alerts]_vars

C37_StoredDurations ==
    /\ [](\A k \in DOMAIN sent_alerts : sent_alerts[k].duration >= 45)
    /\ [][(outcome' = "done" /\ ~reset_needed') =>
            \A k \in DOMAIN sent_alerts :
                /\ k \in DOMAIN sent_alerts'
                /\ \/ sent_alerts'[k].duration = sent_alerts[k].duration
                   \/ sent_alerts'[k].duration >= sent_alerts[k].duration + 45]_vars

\* a repeat alert has raised a record by exactly 45 minutes, from 45 to 90, while the
\* record of the other machine, given with 90 minutes after 50, stays at 50
C37_Witness ==
    /\ outcome = "done" /\ ~reset_needed
    /\ \E occ, other \in DOMAIN downtimes :
        /\ RepeatAlert(occ) \in payload.downtime_alerts
        /\ downtimes[occ].duration = 90 /\ sent_alerts[occ].duration = 90
        /\ other # occ /\ other \in DOMAIN sent_alerts
        /\ downtimes[other].duration = 90 /\ sent_alerts[other].duration = 50

\* C38: a run outside quiet hours whose message could not be delivered, the history
\* file being writable, completes; the file it writes holds the observed duration of
\* every downtime of the message and, if the message was 'all normal', the time of
\* the run as the sentinel; and against that file no downtime it was given is 'new'.
C38_RecordedWithoutDelivery ==
    [][(/\ outcome = "idle" /\ outcome' \notin {"idle", "silent"}
        /\ call_args.writable
        /\ call_result' = "error logged") =>
            /\ outcome' = "done"
            /\ file_state' = "valid"
            /\ \A a \in payload'.downtime_alerts :
                  /\ a.key \in DOMAIN sent_alerts'
                  /\ sent_alerts'[a.key].duration = downtimes'[a.key].duration
            /\ payload'.kind = "all_ok" => last_all_ok_alert' = now
            /\ \A occ \in DOMAIN downtimes' :
                  ~IsNew(sent_alerts', occ, downtimes'[occ])]_vars

\* the message of a new downtime of 50 minutes was not delivered, and the record of
\* the downtime is in the file
C38_Witness ==
    /\ outcome = "done" /\ call_result = "error logged"
    /\ \E occ \in DOMAIN downtimes :
        /\ NewAlert(occ) \in payload.downtime_alerts
        /\ downtimes[occ].duration = 50
        /\ occ \in DOMAIN sent_alerts /\ sent_alerts[occ].duration = 50

\* an 'all normal' message was not delivered, and the sentinel holds the time of the run
C38_WitnessAllNormal ==
    /\ outcome = "done" /\ call_result = "error logged"
    /\ payload.kind = "all_ok"
    /\ last_all_ok_alert = now

\* C7: with no downtime and no deviation alert, a run sends 'all normal' only if none
\* was sent less than 4 hours before, and otherwise nothing; two 'all normal' payloads
\* are at least 4 hours apart; the stored sentinel time changes only when one is sent.
C7_AllNormalThrottle ==
    [][outcome' = "done" =>
        /\ (payload'.downtime_alerts = {} /\ payload'.target_alerts = {}) =>
              IF all_ok_sent_at # None /\ now - all_ok_sent_at < 4
              THEN payload'.kind = "none"
              ELSE payload'.kind = "all_ok"
        /\ payload'.kind = "all_ok" => (all_ok_sent_at = None \/ now - all_ok_sent_at >= 4)
        /\ last_all_ok_alert' # last_all_ok_alert => payload'.kind = "all_ok"]_vars

\* C22: a run that resets the history still knows the time of the last 'all normal'
\* payload (afterwards the sentinel holds that time, or the time of this run if it
\* sends one), and it sends no 'all normal' payload less than 4 hours after the
\* previous one.
C22_ResetKeepsSentinel ==
    [][(outcome' = "done" /\ reset_needed' /\ last_all_ok_alert # None) =>
        /\ last_all_ok_alert' =
              IF payload'.kind = "all_ok" THEN now ELSE last_all_ok_alert
        /\ payload'.kind = "all_ok" =>
              (all_ok_sent_at = None \/ now - all_ok_sent_at >= ALL_OK_EVERY_HOURS)]_vars

\* C24: when two invocations have run on one history file, overlapping or not, the
\* file holds the keyed record of every downtime either of them has alerted, and no
\* downtime has been alerted as 'new' by both.
C24_NoLostUpdate ==
    (\A p \in Invocations : call_pc[p] = "returned") =>
        /\ \A p \in Invocations : \A a \in call_result[p].downtime_alerts :
              a.key \in DOMAIN sent_alerts
        /\ \A occ \in Occurrences :
              ~(NewAlert(occ) \in call_result[1].downtime_alerts
                  /\ NewAlert(occ) \in call_result[2].downtime_alerts)

C8_WitnessExactlyTen ==
    /\ outcome = "done"
    /\ \E p \in DOMAIN targets : targets[p].calc = 110 /\ targets[p].target = 100
    /\ payload.target_alerts = {}

\* C9: a downtime whose key is in the loaded history and which has ended produces no
\* alert, whatever its duration, and its record is not modified.
C9_EndedNeverRepeats ==
    [][(outcome' = "done" /\ ~reset_needed') =>
        \A occ \in DOMAIN downtimes' \cap DOMAIN sent_alerts :
            downtimes'[occ].has_end =>
                /\ ~Alerted(payload', occ)
                /\ sent_alerts'[occ] = sent_alerts[occ]]_vars

\* an ended downtime of 96 minutes whose record holds 45 was not alerted
C9_Witness ==
    /\ outcome = "done" /\ ~reset_needed
    /\ \E occ \in DOMAIN downtimes :
        /\ downtimes[occ].has_end /\ downtimes[occ].duration = 96
        /\ occ \in DOMAIN sent_alerts /\ sent_alerts[occ].duration = 45
        /\ ~Alerted(payload, occ)

\* ======================================================================
\* Properties of the segmentation
\* ======================================================================
FirstTs == rows[1].ts
LastTs == rows[Len(rows)].ts
\* the time interval of an emitted event; an ongoing event ends at the last sample
EventIntervals ==
    {[kind |-> "cycle", i |-> i, from |-> seg_cycles[i].start,
      to |-> IF seg_cycles[i].end = None THEN LastTs ELSE seg_cycles[i].end] :
        i \in DOMAIN seg_cycles}
    \cup
    {[kind |-> "downtime", i |-> i, from |-> seg_downtimes.downtimes[i].start,
      to |-> IF seg_downtimes.downtimes[i].end = None THEN LastTs
             ELSE seg_downtimes.downtimes[i].end] :
        i \in DOMAIN seg_downtimes.downtimes}
\* the intervals of the events share no more than endpoints and lie within the series
EventsDisjoint ==
    /\ \A e \in EventIntervals : FirstTs <= e.from /\ e.from <= e.to /\ e.to <= LastTs
    /\ \A e, f \in EventIntervals : e # f => (e.to <= f.from \/ f.to <= e.from)
\* every instant from the first sample to the last lies in the interval of an event
EventsCover ==
    \A t \in FirstTs..LastTs : \E e \in EventIntervals : e.from <= t /\ t <= e.to

\* C4: the intervals of the Cycles and Downtimes of a time-ordered series are disjoint
\* except for shared endpoints and their union is [first sample, last sample].
C4_Partition ==
    (seg_pc = "done" /\ rows # <<>>) => (EventsDisjoint /\ EventsCover)

\* the same, for a series that has a running sample or spans more than one instant
C4_PartitionOfSpan ==
    (seg_pc = "done" /\ rows # <<>> /\ (FirstTs < LastTs \/ \E i \in DOMAIN rows : rows[i].run = "1"))
        => (EventsDisjoint /\ EventsCover)


\* sample i is an idle sample
IdleAt(i) == rows[i].run = "0"
\* the emitted downtimes whose interval [start, end) holds the time of sample i, the
\* interval of an ongoing downtime being closed at the last sample
DowntimesAt(i) ==
    {k \in DOMAIN seg_downtimes.downtimes :
        LET d == seg_downtimes.downtimes[k]
        IN  /\ d.start <= rows[i].ts
            /\ IF d.end = None THEN rows[i].ts <= LastTs ELSE rows[i].ts < d.end}

\* C15: every idle sample of a series lies in exactly one emitted Downtime, the last
\* sample and the only sample of a series included.
C15_IdleInOneDowntime ==
    seg_pc = "done" =>
        \A i \in DOMAIN rows : IdleAt(i) => Cardinality(DowntimesAt(i)) = 1

\* C16: at the end of the series the open event is emitted as the last event of its
\* kind, with ongoing set, no end and the duration up to the last sample, also when it
\* began at the last sample: a Cycle when the last sample is running, a Downtime when
\* it is idle.
C16_OpenEventEmitted ==
    (seg_pc = "done" /\ rows # <<>>) =>
        IF rows[Len(rows)].run = "1"
        THEN /\ seg_cycles # <<>>
             /\ LET c == seg_cycles[Len(seg_cycles)]
                IN  c.ongoing /\ c.end = None /\ c.duration = DurationOf(LastTs - c.start)
        ELSE /\ seg_downtimes.downtimes # <<>>
             /\ LET d == seg_downtimes.downtimes[Len(seg_downtimes.downtimes)]
                IN  d.ongoing /\ d.end = None /\ d.duration = DurationOf(LastTs - d.start)

\* sample i is running under the identity of the running sample before it
ContinuesCycle(i) ==
    /\ i > 1
    /\ rows[i - 1].run = "1" /\ rows[i].run = "1"
    /\ parse_program_name(rows[i].prog) = parse_program_name(rows[i - 1].prog)
\* the samples at which a cycle starts: the running samples that continue none
CycleStarts == {i \in DOMAIN rows : rows[i].run = "1" /\ ~ContinuesCycle(i)}
\* the samples after i that do not continue the cycle started at i
CycleStops(i) == {j \in (i + 1)..Len(rows) : ~ContinuesCycle(j)}
\* the cycle of the maximal run of samples that starts at sample i
CycleFrom(i) ==
    IF CycleStops(i) = {}
    THEN [start |-> rows[i].ts, end |-> None, program |-> rows[i].prog,
          duration |-> DurationOf(LastTs - rows[i].ts), ongoing |-> TRUE]
    ELSE LET j == CHOOSE j \in CycleStops(i) : \A k \in CycleStops(i) : j <= k
         IN  [start |-> rows[i].ts, end |-> rows[j].ts, program |-> rows[i].prog,
              duration |-> DurationOf(rows[j].ts - rows[i].ts), ongoing |-> FALSE]
\* the series with every label replaced by one label
Relabelled == [i \in DOMAIN rows |-> [rows[i] EXCEPT !.prog = <<"A","-","P","1">>]]

\* C17: the cycles are those of the maximal runs of consecutive running samples with
\* one identity (base, operation): a running sample after a running sample closes the
\* cycle and opens the next, at its own time and with its own label, exactly when its
\* identity differs from the previous sample's; and the downtimes are those of the
\* series with the labels ignored, so that no change of label emits a Downtime.
C17_BoundaryIffIdentityChanges ==
    seg_pc = "done" =>
        /\ Len(seg_cycles) = Cardinality(CycleStarts)
        /\ \A i \in CycleStarts :
              seg_cycles[Cardinality({j \in CycleStarts : j <= i})] = CycleFrom(i)
        /\ seg_downtimes = analyze_downtime(Relabelled)

\* a series whose label changes twice while the machine runs, once within the identity
\* (A-P1 to a_op1: no boundary) and once to another operation (A-P2): two touching
\* cycles and no downtime
C17_Witness ==
    /\ seg_pc = "done"
    /\ Len(rows) = 3 /\ \A i \in DOMAIN rows : rows[i].run = "1"
    /\ rows[1].prog = <<"A","-","P","1">>
    /\ rows[2].prog = <<"a","_","o","p","1">>
    /\ rows[3].prog = <<"A","-","P","2">>
    /\ rows[1].ts < rows[2].ts /\ rows[2].ts < rows[3].ts
    /\ Len(seg_cycles) = 2
    /\ seg_cycles[1].end = rows[3].ts /\ seg_cycles[2].start = rows[3].ts
    /\ seg_cycles[2].program = rows[3].prog
    /\ seg_downtimes.downtimes = <<>>


\* ======================================================================
\* Properties of the reason of a downtime
\* ======================================================================
\* the first samples of the runs of consecutive idle samples
IdleRunStarts(rs) ==
    {i \in DOMAIN rs : rs[i].run = "0" /\ (i = 1 \/ rs[i - 1].run = "1")}
\* the first sample of the idle run sample i is in
FirstOfRun(rs, i) ==
    CHOOSE j \in IdleRunStarts(rs) : j <= i /\ \A k \in IdleRunStarts(rs) : k <= i => k <= j
\* the running sample that ends the idle run that starts at i (0: none)
RunEnd(rs, i) ==
    LET after == {j \in DOMAIN rs : j > i /\ rs[j].run = "1"}
    IN  IF after = {} THEN 0 ELSE CHOOSE j \in after : \A k \in after : j <= k
\* the idle run that starts at i spans time
SpansTime(rs, i) ==
    (IF RunEnd(rs, i) = 0 THEN rs[Len(rs)].ts ELSE rs[RunEnd(rs, i)].ts) > rs[i].ts
\* the k-th of a set of indices
Nth(S, k) == CHOOSE i \in S : Cardinality({j \in S : j <= i}) = k
\* the series with the flags of every idle sample replaced by those of the first
\* sample of its run
WithFirstFlags(rs) ==
    [i \in DOMAIN rs |->
        IF rs[i].run = "0" THEN [rs[i] EXCEPT !.flags = rs[FirstOfRun(rs, i)].flags]
        ELSE rs[i]]

\* C25: the downtimes are, in order, one for each run of consecutive idle samples
\* (none for a run that spans no time, which is never emitted), from the first sample
\* of the run to the running sample that ends it; the reason of each is the reason of
\* the first idle sample of its run; and the flags of the later samples of a run
\* change nothing: the output is that of the series in which they carry the flags of
\* the first.
C25_OneDowntimePerIdleRun ==
    seg_pc = "done" =>
        LET ds     == seg_downtimes.downtimes
            starts == {i \in IdleRunStarts(rows) : SpansTime(rows, i)}
        IN  /\ Len(ds) = Cardinality(starts)
            /\ \A k \in DOMAIN ds :
                  LET i == Nth(starts, k)
                  IN  /\ ds[k].start = rows[i].ts
                      /\ ds[k].end = IF RunEnd(rows, i) = 0 THEN None
                                     ELSE rows[RunEnd(rows, i)].ts
                      /\ ds[k].reason = Reason(rows[i])
            /\ ds = analyze_downtime(WithFirstFlags(rows)).downtimes

\* a run of three idle samples that report an alarm, nothing, and a setup without
\* power is one downtime, of reason Alarm
C25_Witness ==
    /\ seg_pc = "done"
    /\ Len(rows) = 4
    /\ \A i \in 1..3 : rows[i].run = "0"
    /\ rows[4].run = "1"
    /\ rows[1].flags["AlarmState"] = "1"
    /\ rows[2].flags = NoFlags
    /\ rows[3].flags["SetUp"] = "1"
    /\ Len(seg_downtimes.downtimes) = 1
    /\ seg_downtimes.downtimes[1].reason = "Alarm"

\* the conditions in their order of priority: column, value, reason
Conditions ==
    << <<"AlarmState", "1", "Alarm">>, <<"PowerOn", "0", "Power off">>,
       <<"SetUp", "1", "Setup">>, <<"Maintenance", "1", "Maintenance">>,
       <<"NoOperator", "1", "No operator">>, <<"Wait", "1", "Waiting">>,
       <<"FeedHoldState", "1", "Feed Hold">>, <<"ProgramStopState", "1", "Program Stop">> >>
Holds(f, k) == f[Conditions[k][1]] = Conditions[k][2]

\* C26: the reason of a downtime is that of the first condition, in the order alarm,
\* power off, setup, maintenance, no operator, waiting, feed hold, program stop, that
\* holds on the first idle sample of its run, and Idle when none holds: it is one of
\* the nine reasons, and the reason of a condition only if no condition before it
\* holds.
C26_ReasonByPriority ==
    seg_pc = "done" =>
        LET ds     == seg_downtimes.downtimes
            starts == {i \in IdleRunStarts(rows) : SpansTime(rows, i)}
        IN  \A k \in DOMAIN ds :
               LET f == rows[Nth(starts, k)].flags
               IN  /\ ds[k].reason \in {Conditions[c][3] : c \in 1..8} \cup {"Idle"}
                   /\ \A c \in 1..8 :
                         ds[k].reason = Conditions[c][3]
                             <=> (Holds(f, c) /\ \A b \in 1..(c - 1) : ~Holds(f, b))
                   /\ ds[k].reason = "Idle" <=> \A c \in 1..8 : ~Holds(f, c)

\* an idle sample on which every condition holds starts a downtime of reason Alarm
C26_Witness ==
    /\ seg_pc = "done"
    /\ rows[1].run = "0"
    /\ \A c \in 1..8 : Holds(rows[1].flags, c)
    /\ Len(seg_downtimes.downtimes) = 1
    /\ seg_downtimes.downtimes[1].reason = "Alarm"

\* with all conditions but the alarm and the power, the reason is Setup
C26_WitnessSetup ==
    /\ seg_pc = "done"
    /\ rows[1].run = "0"
    /\ ~Holds(rows[1].flags, 1) /\ ~Holds(rows[1].flags, 2)
    /\ \A c \in 3..8 : Holds(rows[1].flags, c)
    /\ Len(seg_downtimes.downtimes) = 1
    /\ seg_downtimes.downtimes[1].reason = "Setup"

\* ======================================================================
\* Properties of the cycles after the split
\* ======================================================================
IsOngoing(c) == Get(c, "ongoing", FALSE)
HasSplitFlag(c) == Get(c, "split_from_schedule", FALSE)

\* C27: every cycle of analyze_cycles followed by split_schedule_cycles has a duration
\* of at least 0; has no end if it is ongoing; has no start, no end and is not ongoing
\* if it carries the split flag; and is ongoing or split if it has no end.
C27_CycleShape ==
    seg_pc = "split" =>
        \A i \in DOMAIN seg_cycles :
            LET c == seg_cycles[i]
            IN  /\ c.duration >= 0
                /\ IsOngoing(c) => c.end = None
                /\ HasSplitFlag(c) => c.start = None /\ c.end = None /\ ~IsOngoing(c)
                /\ c.end = None => IsOngoing(c) \/ HasSplitFlag(c)

\* a closed cycle that was split in three, followed by an ongoing one
C27_Witness ==
    /\ seg_pc = "split"
    /\ Len(call_args.cycles_dict[TheMachine]) = 2
    /\ Len(seg_cycles) = 4
    /\ \A i \in 1..3 : HasSplitFlag(seg_cycles[i]) /\ seg_cycles[i].duration = 3000
    /\ IsOngoing(seg_cycles[4]) /\ ~HasSplitFlag(seg_cycles[4])
    /\ seg_cycles[4].start # None

\* ======================================================================
\* Properties of the utilization counters
\* ======================================================================
\* the minute of the day of a sample is from 01:00 to 06:29
InWindow(ts) ==
    LET minute == (ts % 86400) \div 60
    IN  60 <= minute /\ minute < 390
Counted == {i \in DOMAIN rows : ~InWindow(rows[i].ts)}
\* the series twelve hours later, where no sample is in the window, and the events
\* twelve hours earlier
Later(rs) == [i \in DOMAIN rs |-> [rs[i] EXCEPT !.ts = @ + 43200]]
Earlier(events) ==
    [i \in DOMAIN events |->
        [events[i] EXCEPT !.start = @ - 43200,
                          !.end = IF @ = None THEN None ELSE @ - 43200]]

\* C28: the counters count the samples that are not from 01:00 up to, not including,
\* 06:30: the elapsed count is their number, the running and the idle counts those of
\* them with RunState 1 and 0, and running + idle = elapsed; the efficiency that is
\* saved is running / elapsed of these counts, as a percentage rounded to a tenth, and
\* 0 when elapsed is 0; the cycles and the downtimes are those of the same samples
\* taken twelve hours later, when none is excluded.
C28_CountersOutsideNight ==
    seg_pc = "done" =>
        /\ seg_downtimes.total_min = Cardinality(Counted)
        /\ seg_downtimes.total_run = Cardinality({i \in Counted : rows[i].run = "1"})
        /\ seg_downtimes.total_down = Cardinality({i \in Counted : rows[i].run = "0"})
        /\ seg_downtimes.total_run + seg_downtimes.total_down = seg_downtimes.total_min
        /\ seg_cycles = Earlier(analyze_cycles(Later(rows)))
        /\ seg_downtimes.downtimes = Earlier(analyze_downtime(Later(rows)).downtimes)
        /\ (db_saves > 0 /\ rows # <<>>) =>
              LET eff == daily_summary[<<TheDate, TheMachine>>].efficiency
                  running == Cardinality({i \in Counted : rows[i].run = "1"})
              IN  IF Counted = {} THEN eff = 0
                  ELSE /\ 2 * Cardinality(Counted) * eff
                             <= 2000 * running + Cardinality(Counted)
                       /\ 2 * Cardinality(Counted) * eff
                             >= 2000 * running - Cardinality(Counted)

\* two cycles of the night, a closed one and an ongoing one: emitted, saved, and
\* none of their samples counted
C28_Witness ==
    /\ seg_pc = "done"
    /\ db_saves > 0
    /\ Len(rows) = 3
    /\ rows[1].ts = 3600 /\ rows[1].run = "1"
    /\ rows[2].ts = 109799 /\ rows[2].run = "0"
    /\ rows[3].ts = 109799 /\ rows[3].run = "1"
    /\ Len(seg_cycles) = 2
    /\ seg_downtimes.downtimes = <<>>
    /\ seg_downtimes.total_min = 0
    /\ daily_summary[<<TheDate, TheMachine>>].efficiency = 0

\* two samples of the day and two of the night, one running of each: 1 of 2 counted,
\* an efficiency of 50.0
C28_WitnessHalf ==
    /\ seg_pc = "done"
    /\ db_saves > 0
    /\ Len(rows) = 4
    /\ rows[1].ts = 3540 /\ rows[1].run = "1"
    /\ rows[2].ts = 3600 /\ rows[2].run = "1"
    /\ rows[3].ts = 109799 /\ rows[3].run = "0"
    /\ rows[4].ts = 109800 /\ rows[4].run = "0"
    /\ seg_downtimes.total_run = 1 /\ seg_downtimes.total_down = 1
    /\ seg_downtimes.total_min = 2
    /\ Len(seg_downtimes.downtimes) = 1
    /\ daily_summary[<<TheDate, TheMachine>>].efficiency = 500

\* ======================================================================
\* Properties of parse_program_name
\* ======================================================================
Parsed == call_pc = "returned" /\ call_args.fn = "parse_program_name"
\* the writings whose reading is ambiguous: a pN suffix written directly after the
\* letter O, a name with a '.' and no extension, 100/101 written directly after '10'
AmbiguousForm(f) ==
    \/ f.sep = <<>> /\ f.op = <<"P">> /\ Upper(BodyOf(f)[Len(BodyOf(f))]) = "O"
    \/ f.ext = <<>> /\ \E i \in DOMAIN f.stem : f.stem[i] = "."
    \/ f.num # <<>> /\ EndsWith(RemoveSeparators(f.stem), <<"1","0">>)

\* C13 as stated: a label and its canonical writing (which differ only in letter case,
\* extension, separator, pN/opN, side letter L/R and 101 for 100) parse to one pair.
C13_ParseInsensitive ==
    Parsed => call_result[1] = call_result[2]

\* C13, amended: the same for the labels whose reading is not ambiguous, with the
\* operation number being the digit of the suffix; WF861_101L_OP2.min parses to
\* (WF861100, 2) and WF080-920-2.MIN to operation 2.
C13_ParseInsensitiveUnambiguous ==
    Parsed =>
        /\ ~AmbiguousForm(call_args.form) =>
              /\ call_result[1] = call_result[2]
              /\ call_result[2][2] = (IF call_args.form.digit = "2" THEN 2 ELSE 3)
        /\ call_args.b = <<"W","F","8","6","1","_","1","0","1","L","_","O","P","2",".","m","i","n">> => call_result[2] = << <<"W","F","8","6","1","1","0","0">>, 2 >>
        /\ call_args.b = <<"W","F","0","8","0","-","9","2","0","-","2",".","M","I","N">> => call_result[2][2] = 2

\* WF861-100L-P2.MIN and WF861_101L_OP2.min have both been parsed to (WF861100, 2)
C13_Witness ==
    /\ Parsed
    /\ call_args.a = <<"W","F","8","6","1","-","1","0","0","L","-","P","2",".","M","I","N">>
    /\ call_args.b = <<"W","F","8","6","1","_","1","0","1","L","_","O","P","2",".","m","i","n">>
    /\ call_result = << << <<"W","F","8","6","1","1","0","0">>, 2 >>, << <<"W","F","8","6","1","1","0","0">>, 2 >> >>

\* C23: the empty label and the sentinel label both parse to the empty base and
\* operation 1, and so to one identity.
C23_EmptyAndSentinelAlike ==
    (call_pc = "returned" /\ call_args.fn = "parse_program_name"
        /\ call_args.a = <<>> /\ call_args.b = <<EmDash>>) =>
        /\ call_result[1] = << <<>>, 1 >>
        /\ call_result[2] = << <<>>, 1 >>

\* ======================================================================
\* Properties of the cycle-time estimate
\* ======================================================================
Clustered == call_pc = "returned" /\ call_args.fn = "calculate_real_cycle_time"
\* the sorted durations of the call
SortedArgs == SortSeq(call_args.durations, LAMBDA a, b : a < b)
\* d is within 0.30 * m of v, m being the median of the whole list
InTolerance(v, d) == 20 * Abs(d - v) <= 3 * MedianTwice(SortedArgs)
NeighboursOf(i) ==
    Cardinality({j \in DOMAIN SortedArgs : InTolerance(SortedArgs[i], SortedArgs[j])})
\* i has the most neighbours, is nearest to the middle n / 2 among those that have,
\* and is the lower one of two that are equally near
IsCenter(i) ==
    LET n == Len(SortedArgs)
    IN  /\ \A j \in 1..n : NeighboursOf(j) <= NeighboursOf(i)
        /\ \A j \in 1..n :
              NeighboursOf(j) = NeighboursOf(i) =>
                  \/ Abs(2 * (i - 1) - n) < Abs(2 * (j - 1) - n)
                  \/ Abs(2 * (i - 1) - n) = Abs(2 * (j - 1) - n) /\ i <= j
ClusterOf(i) == SelectSeq(SortedArgs, LAMBDA d : InTolerance(SortedArgs[i], d))

\* C14: for 3 or more durations the result is the median, to 2 decimals, of the values
\* within 0.30 * m of the center, the center being the value with the most neighbours
\* within 0.30 * m and, among tied ones, the one nearest to the middle of the sorted
\* list (the lower index of two equally near); [5,5,5,5,20] gives 5.
C14_DensityClusterMedian ==
    (Clustered /\ Len(call_args.durations) >= 3) =>
        /\ \E i \in DOMAIN SortedArgs :
              /\ IsCenter(i)
              /\ call_result = RoundHalfEven(MedianTwice(ClusterOf(i)), 2)
        /\ call_args.durations = <<500, 500, 500, 500, 2000>> => call_result = 500

\* [5,5,5,5,20] has been clustered to 5
C14_Witness ==
    /\ Clustered
    /\ call_args.durations = <<500, 500, 500, 500, 2000>>
    /\ call_result = 500

\* all four values are tied on the neighbour count and the one nearest to the middle,
\* not the first, gave the result: [5,5,20,20] gives 20
C14_WitnessTie ==
    /\ Clustered
    /\ call_args.durations = <<500, 500, 2000, 2000>>
    /\ call_result = 2000

Estimated == call_pc = "returned" /\ call_args.fn = "calculate_cycle_time_smart"
\* the counter records of the call that match the machine and the identity of the
\* program with RunStateTime > 0 and Counter > 0
TierOneRecords ==
    {i \in DOMAIN call_args.mr_data :
        LET mr == call_args.mr_data[i]
        IN  /\ mr.MachineName = call_args.machine_name
            /\ parse_program_name(mr.ProgramFileName) = parse_program_name(call_args.program_name)
            /\ mr.RunStateTime > 0 /\ mr.Counter > 0}
\* v (hundredths of a minute) is the median of RunStateTime / Counter / 60 over them:
\* the value of the middle record, or the mean of the values of the two middle records
IsTierOneMedian(v) ==
    LET value(i) == CycleTimeOf(call_args.mr_data[i])
        below(i) == Cardinality({j \in TierOneRecords : FractionLess(value(j), value(i))})
        above(i) == Cardinality({j \in TierOneRecords : FractionLess(value(i), value(j))})
        n == Cardinality(TierOneRecords)
        \* the value of record i is at place pos (from 1) of the values in ascending order
        at(i, pos) == below(i) < pos /\ pos <= n - above(i)
    IN  \E i, j \in TierOneRecords :
            /\ at(i, (n + 1) \div 2) /\ at(j, n \div 2 + 1)
            /\ v = RoundHalfEven(100 * (value(i)[1] * value(j)[2] + value(j)[1] * value(i)[2]),
                                 2 * value(i)[2] * value(j)[2])

\* C11: when a counter record matches the machine and the identity of the program with
\* RunStateTime > 0 and Counter > 0, the estimate is the median of RunStateTime /
\* Counter / 60 over the matching records whatever the cycles are; when none matches,
\* it is what the cycles alone give; one record of 4.5 with five cycles of 6.0 gives 4.5.
C11_TierOneWins ==
    Estimated =>
        /\ TierOneRecords # {} => IsTierOneMedian(call_result)
        /\ TierOneRecords = {} =>
              call_result = calculate_cycle_time_smart(call_args.machine_name,
                                call_args.program_name, call_args.cycles_list, <<>>)
        /\ (/\ call_args.cycles_list = FiveCycles
            /\ Len(call_args.mr_data) = 1 /\ TierOneRecords = {1}
            /\ call_args.mr_data[1].RunStateTime = 270 /\ call_args.mr_data[1].Counter = 1)
              => call_result = 450

\* one counter record of 4.5 minutes a part and five completed cycles of 6.0 minutes
\* have given 4.5
C11_Witness ==
    /\ Estimated
    /\ call_args.cycles_list = FiveCycles
    /\ call_args.mr_data = <<[MachineName |-> "M1", ProgramFileName |-> <<"a","_","o","p","1">>,
                              RunStateTime |-> 270, Counter |-> 1]>>
    /\ call_result = 450

\* v (hundredths of a minute) and the median of RunStateTime / Counter / 60 over the
\* tier-one records (the middle value, or the mean of the two middle values) are as
\* Near says: Near(v * den, num, den) for the median num / den in hundredths
TierOneMedianIs(v, Near(_, _, _)) ==
    LET value(i) == CycleTimeOf(call_args.mr_data[i])
        below(i) == Cardinality({j \in TierOneRecords : FractionLess(value(j), value(i))})
        above(i) == Cardinality({j \in TierOneRecords : FractionLess(value(i), value(j))})
        n == Cardinality(TierOneRecords)
        at(i, pos) == below(i) < pos /\ pos <= n - above(i)
    IN  \E i, j \in TierOneRecords :
            /\ at(i, (n + 1) \div 2) /\ at(j, n \div 2 + 1)
            /\ Near(v * 2 * value(i)[2] * value(j)[2],
                    100 * (value(i)[1] * value(j)[2] + value(j)[1] * value(i)[2]),
                    2 * value(i)[2] * value(j)[2])
Exactly(x, y, den) == x = y
\* x / den is within half a unit of y / den
ToTheHundredth(x, y, den) == 2 * Abs(x - y) <= den
\* the records of the call that are not tier-one records have no influence
OthersWithoutInfluence ==
    LET kept(mr) ==
            /\ mr.MachineName = call_args.machine_name
            /\ parse_program_name(mr.ProgramFileName) = parse_program_name(call_args.program_name)
            /\ mr.RunStateTime > 0 /\ mr.Counter > 0
    IN  call_result = calculate_cycle_time_smart(call_args.machine_name, call_args.program_name,
                          call_args.cycles_list, SelectSeq(call_args.mr_data, kept))

C31_WitnessOtherMachine ==
    /\ Estimated
    /\ Len(call_args.mr_data) = 2 /\ TierOneRecords = {2}
    /\ call_args.mr_data[1].MachineName = "M2"
    /\ call_args.mr_data[1].ProgramFileName = <<"A","-","P","1">>
    /\ call_args.mr_data[1].RunStateTime = 270 /\ call_args.mr_data[1].Counter = 1
    /\ call_args.mr_data[2].RunStateTime = 100
    /\ call_result = 56

\* the durations of the cycles of the call that P holds of, in their order
DurationsWhere(P(_)) ==
    LET picked == SelectSeq(call_args.cycles_list, P)
    IN  [i \in DOMAIN picked |-> picked[i].duration]
\* completed (with an end), no part of a split cycle, of 0.5 minutes or more
PassesFilter(c) ==
    c.end # None /\ ~Get(c, "split_from_schedule", FALSE) /\ c.duration >= 50
HasPositiveDuration(c) == c.duration > 0
\* the call is over, by a return or by an exception
Called == call_pc \in {"returned", "raised"} /\ call_args.fn = "calculate_cycle_time_smart"

\* C32: without a tier-one record and with 3 or more cycles that are completed, not
\* split and of 0.5 minutes or more, the estimate is the density-cluster result over
\* the durations of these cycles, and so the same as without the other cycles.
C32_TierTwoOverFiltered ==
    (Estimated /\ TierOneRecords = {} /\ Len(DurationsWhere(PassesFilter)) >= 3) =>
        /\ call_result = calculate_real_cycle_time(DurationsWhere(PassesFilter))
        /\ call_result =
              calculate_cycle_time_smart(call_args.machine_name, call_args.program_name,
                  SelectSeq(call_args.cycles_list, PassesFilter), call_args.mr_data)

\* completed cycles of 6, 7 and 7 minutes with two ongoing ones of 5 minutes give 7,
\* where all five durations together cluster to 6
C32_Witness ==
    /\ Estimated
    /\ call_args.mr_data = <<>>
    /\ DurationsWhere(PassesFilter) = <<600, 700, 700>>
    /\ DurationsWhere(HasPositiveDuration) = <<500, 500, 600, 700, 700>>
    /\ calculate_real_cycle_time(DurationsWhere(HasPositiveDuration)) = 600
    /\ call_result = 700

\* C33: without a valid counter record of the machine and program (RunStateTime > 0
\* and Counter > 0) and with fewer than 3 cycles that pass the filter, the call returns
\* the density-cluster result over all durations > 0 if there are 3 or more, and
\* returns the absent value otherwise; it never ends by an exception.
C33_TierThreeOrAbsent ==
    (Called /\ TierOneRecords = {} /\ Len(DurationsWhere(PassesFilter)) < 3) =>
        /\ call_pc = "returned"
        /\ call_result = IF Len(DurationsWhere(HasPositiveDuration)) >= 3
                         THEN calculate_real_cycle_time(DurationsWhere(HasPositiveDuration))
                         ELSE None

\* the same for the calls that return
C33_TierThreeOrAbsentReturned ==
    (Estimated /\ TierOneRecords = {} /\ Len(DurationsWhere(PassesFilter)) < 3) =>
        /\ call_result = IF Len(DurationsWhere(HasPositiveDuration)) >= 3
                         THEN calculate_real_cycle_time(DurationsWhere(HasPositiveDuration))
                         ELSE None
        /\ call_result = None <=> Len(DurationsWhere(HasPositiveDuration)) < 3

\* ======================================================================
\* Properties of split_schedule_cycles
\* ======================================================================
Split == call_pc = "returned" /\ call_args.fn = "split_schedule_cycles"
\* cycle i of machine m, as handed in
CycleIn(m, i) == call_args.cycles_dict[m][i]
\* the counter record found for it: the first in file order of the same machine and
\* identity dated less than 5 minutes from the end of the cycle (0: none)
FoundFor(m, i) ==
    LET c == CycleIn(m, i)
        ok == {k \in DOMAIN call_args.mr_data :
                 LET mr == call_args.mr_data[k]
                 IN  /\ mr.MachineName = m
                     /\ parse_program_name(mr.ProgramFileName) = parse_program_name(c.program)
                     /\ c.end # None
                     /\ Abs(mr.Date - c.end) < 300}
    IN  IF ok = {} THEN 0 ELSE CHOOSE k \in ok : \A j \in ok : k <= j
\* the cycle is completed and the record found for it counts more than one part
CounterOver1(m, i) ==
    /\ ~CycleIn(m, i).ongoing
    /\ FoundFor(m, i) # 0
    /\ call_args.mr_data[FoundFor(m, i)].Counter > 1
\* the number of cycles that stand for cycle i in the output, given which are split
PartsOf(m, i, IsSplit(_, _)) ==
    IF IsSplit(m, i) THEN call_args.mr_data[FoundFor(m, i)].Counter ELSE 1
\* the number of cycles that stand for the cycles before cycle i
PartsBefore(m, i, IsSplit(_, _)) ==
    LET before[k \in 1..i] ==
            IF k = 1 THEN 0 ELSE before[k - 1] + PartsOf(m, k - 1, IsSplit)
    IN  before[i]
IsSubCycleOf(c, cycle) ==
    /\ c.start = None /\ c.end = None /\ ~c.ongoing
    /\ Get(c, "split_from_schedule", FALSE)
    /\ c.program = cycle.program
\* in the output, the cycles IsSplit holds of are replaced by their n parts, in place
SplitInPlace(IsSplit(_, _)) ==
    \A m \in DOMAIN call_args.cycles_dict :
        LET n == Len(call_args.cycles_dict[m])
        IN  /\ Len(call_result[m]) = PartsBefore(m, n + 1, IsSplit)
            /\ \A i \in 1..n :
                  IsSplit(m, i) =>
                      /\ \A q \in 1..PartsOf(m, i, IsSplit) :
                            IsSubCycleOf(call_result[m][PartsBefore(m, i, IsSplit) + q],
                                         CycleIn(m, i))
                      /\ \A q \in DOMAIN call_result[m] : call_result[m][q] # CycleIn(m, i)
\* in the output, the cycles IsSplit does not hold of are where they were, unchanged
UnsplitInPlace(IsSplit(_, _)) ==
    \A m \in DOMAIN call_args.cycles_dict :
        LET n == Len(call_args.cycles_dict[m])
        IN  /\ Len(call_result[m]) = PartsBefore(m, n + 1, IsSplit)
            /\ \A i \in 1..n :
                  ~IsSplit(m, i) =>
                      call_result[m][PartsBefore(m, i, IsSplit) + 1] = CycleIn(m, i)
HasDuration(m, i) == CycleIn(m, i).duration > 0
SplitWhenCounted(m, i) == CounterOver1(m, i) /\ HasDuration(m, i)

PartOf(m, i, q) == call_result[m][PartsBefore(m, i, SplitWhenCounted) + q]
RecordOf(m, i) == call_args.mr_data[FoundFor(m, i)]
\* every part of every split cycle has a duration (in hundredths of a minute) that
\* IsDuration accepts for the cycle and its record
PartDurations(IsDuration(_, _, _)) ==
    \A m \in DOMAIN call_args.cycles_dict :
        \A i \in DOMAIN call_args.cycles_dict[m] :
            SplitWhenCounted(m, i) =>
                \A q \in 1..RecordOf(m, i).Counter :
                    /\ IsDuration(PartOf(m, i, q).duration, CycleIn(m, i), RecordOf(m, i))
                    /\ PartOf(m, i, q).duration = PartOf(m, i, 1).duration
\* d hundredths of a minute are RunStateTime / Counter / 60 minutes, or the duration of
\* the cycle / Counter without a RunStateTime
ExactPart(d, cycle, mr) ==
    IF mr.RunStateTime > 0 THEN 60 * mr.Counter * d = 100 * mr.RunStateTime
    ELSE mr.Counter * d = cycle.duration
\* the same to the nearest hundredth of a minute
RoundedPart(d, cycle, mr) ==
    IF mr.RunStateTime > 0
    THEN 2 * Abs(60 * mr.Counter * d - 100 * mr.RunStateTime) <= 60 * mr.Counter
    ELSE 2 * Abs(mr.Counter * d - cycle.duration) <= mr.Counter

\* C29 as stated: the duration of every part of a split with Counter = n is
\* RunStateTime / n / 60 minutes when the RunStateTime of the record is > 0 and the
\* duration of the cycle / n otherwise, and the n parts have the same duration.
C29_PartDurationExact ==
    Split => PartDurations(ExactPart)

\* C29, amended: the duration of every part is that quotient rounded to the nearest
\* hundredth of a minute, and the n parts have the same duration.
C29_PartDurationRounded ==
    Split => PartDurations(RoundedPart)

\* Counter 3 and RunStateTime 5400 give three parts of 30.00 minutes
C29_Witness ==
    /\ Split
    /\ Len(call_args.cycles_dict["M1"]) = 1
    /\ SplitWhenCounted("M1", 1)
    /\ RecordOf("M1", 1).Counter = 3 /\ RecordOf("M1", 1).RunStateTime = 5400
    /\ Len(call_result["M1"]) = 3
    /\ \A q \in 1..3 : call_result["M1"][q].duration = 3000

\* a RunStateTime of 100 seconds gives three parts of 0.56 minutes
C29_WitnessRounded ==
    /\ Split
    /\ Len(call_args.cycles_dict["M1"]) = 1
    /\ SplitWhenCounted("M1", 1)
    /\ RecordOf("M1", 1).Counter = 3 /\ RecordOf("M1", 1).RunStateTime = 100
    /\ Len(call_result["M1"]) = 3
    /\ \A q \in 1..3 : call_result["M1"][q].duration = 56

\* without a RunStateTime a cycle of 10 minutes gives three parts of 3.33 minutes
C29_WitnessOfCycle ==
    /\ Split
    /\ Len(call_args.cycles_dict["M1"]) = 1
    /\ SplitWhenCounted("M1", 1)
    /\ RecordOf("M1", 1).Counter = 3 /\ RecordOf("M1", 1).RunStateTime = 0
    /\ CycleIn("M1", 1).duration = 1000
    /\ Len(call_result["M1"]) = 3
    /\ \A q \in 1..3 : call_result["M1"][q].duration = 333

\* C39: split_schedule_cycles applied to the cycles it has returned, with the same
\* counter records, returns them as they are.
C39_SplitIdempotent ==
    [][(call_pc = "returned" /\ call_pc' = "returned again") =>
            call_result' = call_result]_vars

\* the second application was given 3 sub-cycles, an ongoing cycle and, of the other
\* machine, a completed cycle that no record matches
C39_Witness ==
    /\ call_pc = "returned again"
    /\ Len(call_result["M1"]) = 4
    /\ \A q \in 1..3 : Get(call_result["M1"][q], "split_from_schedule", FALSE)
    /\ call_result["M1"][4].ongoing
    /\ call_result["M2"] = OtherMachineCycles

\* the second application was given a completed cycle whose record counts one part
C39_WitnessCounter1 ==
    /\ call_pc = "returned again"
    /\ \E i \in DOMAIN call_args.cycles_dict["M1"] :
        /\ FoundFor("M1", i) # 0
        /\ call_args.mr_data[FoundFor("M1", i)].Counter = 1
        /\ call_result["M1"] = call_args.cycles_dict["M1"]

\* C18: a cycle that is ongoing, or for which no record is found, or whose found
\* record has Counter <= 1 is in the output unchanged and at its place among the
\* other cycles; the cycles of a machine are what they would be if the other machine
\* had no cycles; and the downtimes are not touched.
C18_UnsplitUnchanged ==
    /\ [](Split =>
            /\ UnsplitInPlace(SplitWhenCounted)
            /\ \A m \in DOMAIN call_args.cycles_dict :
                  call_result[m] =
                      split_schedule_cycles([k \in {m} |-> call_args.cycles_dict[m]],
                                            call_args.mr_data)[m])
    /\ [][call_pc' = "returned" => seg_downtimes' = seg_downtimes]_vars

\* an ongoing cycle with a record that matches its machine and program, after a cycle
\* that has been split, is the last cycle of the output, unchanged
C18_Witness ==
    /\ Split
    /\ Len(call_args.cycles_dict["M1"]) = 2
    /\ CounterOver1("M1", 1) /\ HasDuration("M1", 1)
    /\ CycleIn("M1", 2).ongoing
    /\ \E k \in DOMAIN call_args.mr_data :
          /\ call_args.mr_data[k].MachineName = "M1"
          /\ call_args.mr_data[k].Counter = 3
    /\ Len(call_result["M1"]) = 4
    /\ call_result["M1"][4] = CycleIn("M1", 2)
    /\ call_result["M2"] = call_args.cycles_dict["M2"]

\* ======================================================================
\* Properties of the split with records that cannot be read
\* ======================================================================
IsBad(mr) ==
    mr.Date = Unparseable \/ mr.Counter = Unparseable \/ mr.RunStateTime = Unparseable
IsGood(mr) == ~IsBad(mr)
RecordsOf(m) == SelectSeq(call_args.mr_data, LAMBDA mr : mr.MachineName = m)

\* C30: a record with a Date, a Counter or a RunStateTime that cannot be read is no
\* match: the cycles of a machine all of whose records are bad are returned
\* unchanged; the cycles of a machine none of whose records is bad are split as they
\* are without the bad records; and the records are returned for the estimator.
C30_BadRecordIsNoMatch ==
    Split =>
        /\ \A m \in DOMAIN call_args.cycles_dict :
              /\ (\A k \in DOMAIN RecordsOf(m) : IsBad(RecordsOf(m)[k]))
                    => call_result.cycles[m] = call_args.cycles_dict[m]
              /\ (\A k \in DOMAIN RecordsOf(m) : IsGood(RecordsOf(m)[k]))
                    => call_result.cycles[m] =
                          split_schedule_cycles(call_args.cycles_dict,
                                                SelectSeq(call_args.mr_data, IsGood))[m]
        /\ call_result.mr_data = call_args.mr_data

\* record k is of machine m and of the identity of its cycle i, and is dated less
\* than 300 seconds from the end of the cycle
InReach(m, i, k) ==
    LET c  == CycleIn(m, i)
        mr == call_args.mr_data[k]
    IN  /\ mr.MachineName = m
        /\ parse_program_name(mr.ProgramFileName) = parse_program_name(c.program)
        /\ c.end # None
        /\ mr.Date # Unparseable
        /\ Abs(mr.Date - c.end) < 300
HasCounter(m, i, k) == call_args.mr_data[k].Counter # Unparseable
\* the first of the records that Accepted holds of (0: none)
FirstRecord(m, i, Accepted(_, _, _)) ==
    LET ok == {k \in DOMAIN call_args.mr_data : Accepted(m, i, k)}
    IN  IF ok = {} THEN 0 ELSE CHOOSE k \in ok : \A j \in ok : k <= j
\* the one cycle of machine m has become what record k alone makes of it: as many
\* sub-cycles as its Counter, if that is a number over 1 and the cycle is completed
\* and has a duration, and otherwise the cycle as it was
MadeOfRecord(m, k) ==
    LET c == CycleIn(m, 1)
        counter == IF k = 0 THEN 1 ELSE call_args.mr_data[k].Counter
    IN  IF counter # Unparseable /\ counter > 1 /\ c.duration > 0 /\ ~c.ongoing
        THEN /\ Len(call_result.cycles[m]) = counter
             /\ \A q \in 1..counter : IsSubCycleOf(call_result.cycles[m][q], c)
        ELSE call_result.cycles[m] = <<c>>

C40_WitnessAt300 ==
    /\ Split /\ Len(call_args.mr_data) = 1
    /\ call_args.mr_data[1].MachineName = "M1" /\ call_args.mr_data[1].Counter = 3
    /\ CycleIn("M1", 1).end # None /\ CycleIn("M1", 1).duration > 0
    /\ CycleIn("M1", 1).program = <<"A","-","P","1">>
    /\ CycleIn("M1", 1).end - call_args.mr_data[1].Date = 300
    /\ call_result.cycles["M1"] = call_args.cycles_dict["M1"]

\* the first record in reach has a Counter that cannot be read and the second counts
\* 3 parts: the cycle is split in 3
C40_WitnessPassedOver ==
    /\ Split /\ Len(call_args.mr_data) = 2
    /\ InReach("M1", 1, 1) /\ call_args.mr_data[1].Counter = Unparseable
    /\ InReach("M1", 1, 2) /\ call_args.mr_data[2].Counter = 3
    /\ Len(call_result.cycles["M1"]) = 3

\* ======================================================================
\* Properties of the target check
\* ======================================================================
Checked == call_pc = "returned" /\ call_args.fn = "target_alert"
\* the entries of the table that are of the program, the operation and the machine
EntriesFor(mname, prog, table) ==
    {k \in DOMAIN table :
        /\ parse_program_name(table[k].program)[1] = parse_program_name(prog)[1]
        /\ table[k].op = parse_program_name(prog)[2]
        /\ Upper(table[k].machine[1]) = Upper(mname[1])
        /\ table[k].machine[2] = mname[2]}
MatchingEntries == EntriesFor(call_args.mname, call_args.prog, call_args.excel_targets)

\* C19: with a matching target t, the deviation of the estimate e is (e - t) / t * 100
\* and a reported deviation is called slower when positive and faster when negative,
\* with the absolute value to one decimal; with no matching entry, or an empty table,
\* there is no target: no deviation, no alert, and the check returns.
C19_DeviationOrNoTarget ==
    Checked =>
        LET e == call_args.calc_target
            r == call_result
        IN  /\ MatchingEntries # {} =>
                /\ \E k \in MatchingEntries : r.target = call_args.excel_targets[k].time
                /\ r.diff_pct[2] > 0
                /\ r.diff_pct[1] * r.target = (e - r.target) * 100 * r.diff_pct[2]
                /\ r.alert =>
                      /\ r.status = "slower" <=> e > r.target
                      /\ r.status = "faster" <=> e < r.target
                      /\ 2 * Abs(r.shown * r.target - Abs(e - r.target) * 1000) <= r.target
            /\ MatchingEntries = {} =>
                /\ r.target = None /\ r.diff_pct = None /\ r.status = None
                /\ ~r.alert

\* a time 15 % under the first of two matching targets is reported as 15.0 % faster
C19_Witness ==
    /\ Checked
    /\ Cardinality(MatchingEntries) = 2
    /\ call_args.calc_target = 85
    /\ call_result.target = 100
    /\ call_result.alert /\ call_result.status = "faster" /\ call_result.shown = 150

\* a time 11 % over its target is reported as 11.0 % slower
C19_WitnessSlower ==
    /\ Checked
    /\ call_args.calc_target = 111
    /\ call_result.target = 100
    /\ call_result.alert /\ call_result.status = "slower" /\ call_result.shown = 110

\* a table with entries of other programs and machines only: no target
C19_WitnessNoTarget ==
    /\ Checked
    /\ Len(call_args.excel_targets) = MaxTargets
    /\ MatchingEntries = {}
    /\ call_args.calc_target = 111
    /\ call_result.target = None /\ ~call_result.alert

\* an empty table: no target
C19_WitnessEmpty ==
    /\ Checked
    /\ call_args.excel_targets = <<>>
    /\ call_result.target = None /\ ~call_result.alert

\* entry k of the table of the call has the normalized program, the operation number
\* and the normalized short machine name of the call
IsEntryOf(k) ==
    LET e == call_args.excel_targets[k]
    IN  /\ normalize_program_name(e.program) = normalize_program_name(call_args.prog)
        /\ e.op = get_operation_number(call_args.prog)
        /\ normalize_program_name(e.machine)
              = normalize_program_name(machine_short(call_args.mname))
\* entry k is of the program and operation of the call and of another machine
IsOfOtherMachine(k) ==
    LET e == call_args.excel_targets[k]
    IN  /\ normalize_program_name(e.program) = normalize_program_name(call_args.prog)
        /\ e.op = get_operation_number(call_args.prog)
        /\ UpperStr(e.machine) # UpperStr(machine_short(call_args.mname))

\* C34: a target is found if and only if an entry of the table has the normalized
\* program, the operation number and the normalized short machine name of the call;
\* the target is the time of the first such entry in the order of the table; an entry
\* of the program and operation and of another machine is never one of them.
C34_TargetIffEntryMatches ==
    Checked =>
        LET found == {k \in DOMAIN call_args.excel_targets : IsEntryOf(k)}
        IN  /\ call_result.target # None <=> found # {}
            /\ \A k \in found :
                  (\A j \in found : k <= j)
                      => call_result.target = call_args.excel_targets[k].time
            /\ \A k \in DOMAIN call_args.excel_targets : IsOfOtherMachine(k) => k \notin found

\* what holds of the lookup: an entry supplies the target exactly when its normalized
\* fields are those of the call, whatever the machine names were before normalization
C34_TargetIffNormalizedMatch ==
    Checked =>
        LET found == {k \in DOMAIN call_args.excel_targets : IsEntryOf(k)}
        IN  /\ call_result.target # None <=> found # {}
            /\ \A k \in found :
                  (\A j \in found : k <= j)
                      => call_result.target = call_args.excel_targets[k].time

\* ======================================================================
\* Properties of the run on malformed samples
\* ======================================================================
IsWellFormed(r) == r.ts # None /\ r.run # "None"
WellFormed(rs) == SelectSeq(rs, IsWellFormed)

\* C20: a sample whose timestamp does not parse or that has no run state is dropped:
\* the run does not fail, and its cycles and downtimes are those of the series
\* without the malformed sample (none, when no sample is left).
C20_MalformedDropped ==
    /\ seg_pc # "failed"
    /\ seg_pc = "done" =>
          /\ seg_cycles = analyze_cycles(WellFormed(rows))
          /\ seg_downtimes.downtimes = analyze_downtime(WellFormed(rows)).downtimes

\* C21: on an input without samples the run does not fail, and it ends with no cycles
\* and no downtimes.
C21_EmptyInputEmptyResult ==
    rows = <<>> =>
        /\ seg_pc # "failed"
        /\ seg_pc = "done" => seg_cycles = <<>> /\ seg_downtimes = NoDowntimeData

\* ======================================================================
\* Properties of the historical store
\* ======================================================================
\* C10: a second save_to_db with the same cycles and downtimes for the same date leaves
\* the rows of daily_summary, cycle_events and downtime_events as the first left them.
C10_SaveIdempotent ==
    [][(db_saves = 1 /\ db_saves' = 2) =>
        /\ daily_summary' = daily_summary
        /\ cycle_events' = cycle_events
        /\ downtime_events' = downtime_events]_vars

====
